---- MODULE Spec2Model ----
(***************************************************************************)
(* A model of jupyter_utils/agenda_ecn.py: the merged-cell normaliser, the *)
(* grid text search, the conflict detector and the calendar codec.         *)
(*                                                                         *)
(* Every function of the source is an operator of the same name, computed  *)
(* the way the source computes it; every call of a function is one action. *)
(* The module holds several specifications, one per component, that share  *)
(* the variables; a specification leaves the variables of the other        *)
(* components at their idle values.                                        *)
(***************************************************************************)
EXTENDS Integers, Sequences, FiniteSets, TLC

VARIABLES
    pc,              \* position of the caller: which call has been made
    source,          \* the workbook as openpyxl.load_workbook returns it
    wbook,           \* the workbook object held by the caller
    saved,           \* files written by wbook.save: set of [path, content]
    search_string,   \* argument of search_string_in_workbook
    search_results,  \* its return value
    output_save,     \* argument of unmerge_cell_copy_top_value
    caller_df,       \* the event collection the caller of
                     \* find_conflicting_events holds
    combined_df,     \* the local combined_df of find_conflicting_events
    conflicts_df,    \* its return value
    ics_file,        \* the components of the calendar file read_ics opens
    now,             \* read_ics: the host's wall clock, datetime.now()
    parsed,          \* what read_ics did: [outcome, events]
    events_df,       \* the event collection given to df_to_ics
    output_file,     \* the components of the file df_to_ics writes
    reparsed,        \* what read_ics did on output_file
    call,            \* the arguments of a call of an extractor
    groups_row,      \* extract_schedule_by_group_EI1: its local groups_row
    occurences,      \* the extractors' local occurences
    extracted,       \* what the extractor did: [outcome, events]
    workbooks,       \* concurrent callers: the file of each caller
    wbooks,          \* the workbook objects of the calls in progress
    running,         \* the call of each caller: its position and locals
    raw_text,        \* clean_text: the text it is given
    cleaned,         \* clean_text(raw_text)
    recleaned        \* clean_text(cleaned)

gridVars == <<source, wbook, saved, search_string, search_results, output_save>>

conflictVars == <<caller_df, combined_df, conflicts_df>>

icsVars == <<ics_file, now, parsed, events_df, output_file, reparsed>>

extractVars == <<call, groups_row, occurences, extracted>>

parallelVars == <<workbooks, wbooks, running>>

cleanVars == <<raw_text, cleaned, recleaned>>

vars == <<pc, gridVars, conflictVars, icsVars, extractVars, parallelVars,
         cleanVars>>

(***************************************************************************)
(* Workbooks.  A workbook is the sequence of its worksheets, in workbook   *)
(* order; a worksheet has a title, a value for every cell it holds (in the *)
(* small grids: rows 1..MaxRow, columns Columns) and a set of merged       *)
(* ranges.  The cell "B2" is the pair <<2, 2>> (column number, row).       *)
(***************************************************************************)
Sheets == <<"S1", "S2">>

Columns == <<"A", "B">>

MaxRow == 2

NumCols == Len(Columns)

Coords == (1..NumCols) \X (1..MaxRow)

\* Cell values: None, text (a sequence of characters), a number, a date.
None == [kind |-> "none", val |-> <<>>]

Str(s) == [kind |-> "str", val |-> s]

IntVal(n) == [kind |-> "int", val |-> n]

DateVal(d) == [kind |-> "date", val |-> d]

\* Python truthiness of a cell value: None, "" and 0 are falsy.
Truthy(v) ==
    CASE v.kind = "none" -> FALSE
      [] v.kind = "str"  -> Len(v.val) > 0
      [] v.kind = "int"  -> v.val # 0
      [] OTHER           -> TRUE

\* A merged range "A1:B2" as openpyxl.utils.range_boundaries returns it.
Ranges ==
    { r \in [min_col : 1..NumCols, min_row : 1..MaxRow,
             max_col : 1..NumCols, max_row : 1..MaxRow] :
        r.min_col <= r.max_col /\ r.min_row <= r.max_row }

InRange(c, r) ==
    /\ r.min_col <= c[1] /\ c[1] <= r.max_col
    /\ r.min_row <= c[2] /\ c[2] <= r.max_row

Disjoint(r1, r2) == ~ \E c \in Coords : InRange(c, r1) /\ InRange(c, r2)

\* The workbooks of the model have at most MaxMerged merged ranges.
MaxMerged == 2

\* The sets of at most k merged ranges a worksheet can have: the ranges of
\* one worksheet never overlap (a spreadsheet application refuses a merge
\* that intersects another).
RECURSIVE RangeSets(_)
RangeSets(k) ==
    IF k = 0 THEN {{}}
    ELSE LET smaller == RangeSets(k - 1)
         IN  smaller \cup
             UNION { { rs \cup {r} : r \in
                        { q \in Ranges : \A p \in rs : Disjoint(p, q) } } :
                     rs \in smaller }

RECURSIVE CountRanges(_, _)
CountRanges(ms, n) ==
    IF n = 0 THEN 0 ELSE Cardinality(ms[n]) + CountRanges(ms, n - 1)

Digits == <<"1", "2", "3", "4", "5", "6", "7", "8", "9">>

\* A text that names its own cell, e.g. "S1A2": no two cells share it.
Tag(i, c) == Str(<<Sheets[i], Columns[c[1]], Digits[c[2]]>>)

IsAnchor(c, r) == c[1] = r.min_col /\ c[2] = r.min_row

\* What a cell holds once the file is loaded.  "tags": every cell has its
\* own text.  "reader": as "tags", but the cells of a merged range other
\* than its top-left cell are empty (the reader blanks them).
\* "empty_anchor": as "tags", but the top-left cell of every merged range
\* is empty.
Fills == {"tags", "reader", "empty_anchor"}

FillValue(fill, i, c, merged) ==
    CASE fill = "reader" /\ (\E r \in merged : InRange(c, r) /\ ~IsAnchor(c, r))
            -> None
      [] fill = "empty_anchor" /\ (\E r \in merged : IsAnchor(c, r))
            -> None
      [] OTHER -> Tag(i, c)

LoadedSheet(i, merged, fill) ==
    [title  |-> Sheets[i],
     cells  |-> [c \in Coords |-> FillValue(fill, i, c, merged)],
     merged |-> merged]

(***************************************************************************)
(* create_merged_cell_lookup and unmerge_cell_copy_top_value.              *)
(***************************************************************************)
\* The value of the top-left cell of every merged range of the sheet.
create_merged_cell_lookup(sheet) ==
    [cell_group \in sheet.merged |->
        sheet.cells[<<cell_group.min_col, cell_group.min_row>>]]

\* sheet.unmerge_cells(str(cell_group))
unmerge_cells(sheet, cell_group) ==
    [sheet EXCEPT !.merged = @ \ {cell_group}]

\* Mutant: only the first row of the range receives the value.
CopyTopValue_FirstRowOnly(sheet, cell_group, value) ==
    [sheet EXCEPT !.cells =
        [c \in DOMAIN sheet.cells |->
            IF InRange(c, cell_group) /\ c[2] = cell_group.min_row
            THEN value ELSE @[c]]]

\* for row in sheet.iter_rows(min_col.., max_row): for cell in row:
\*     cell.value = lookup[cell_group]
CopyTopValue(sheet, cell_group, value) ==
    [sheet EXCEPT !.cells =
        [c \in DOMAIN sheet.cells |->
            IF InRange(c, cell_group) THEN value ELSE @[c]]]

\* The loop over lookup.keys() of one sheet.
RECURSIVE UnmergeGroups(_, _, _)
UnmergeGroups(sheet, lookup, cell_group_list) ==
    IF cell_group_list = {} THEN sheet
    ELSE LET cell_group == CHOOSE g \in cell_group_list : TRUE
         IN  UnmergeGroups(
                 CopyTopValue(unmerge_cells(sheet, cell_group),
                              cell_group, lookup[cell_group]),
                 lookup, cell_group_list \ {cell_group})

UnmergeSheet(sheet) ==
    LET lookup == create_merged_cell_lookup(sheet)
    IN  UnmergeGroups(sheet, lookup, DOMAIN lookup)

\* The loop over wbook.worksheets: the workbook that is returned.
unmerge_cell_copy_top_value(wb) ==
    [i \in 1..Len(wb) |-> UnmergeSheet(wb[i])]

\* The output paths a caller passes: none, or a file name.
OutputPaths == {"", "out.xlsx"}

\* The name the docstring of unmerge_cell_copy_top_value gives.
DefaultOutput == "ready4Import.xlsx"

\* Mutant: without an output path the workbook is saved under the name of
\* the docstring.
Save_DefaultName(files, path, wb) ==
    files \cup {[path |-> IF path # "" THEN path ELSE DefaultOutput,
                 content |-> wb]}

\* if output_save : wbook.save(output_save)
Save(files, path, wb) ==
    IF path # "" THEN files \cup {[path |-> path, content |-> wb]}
    ELSE files

\* A call unmerge_cell_copy_top_value(workbook_path, output_save).
UnmergeCall(path) ==
    /\ pc = "loaded"
    /\ output_save' = path
    /\ wbook' = unmerge_cell_copy_top_value(source)
    /\ saved' = Save(saved, path, wbook')
    /\ pc' = "normalized"
    /\ UNCHANGED <<source, search_string, search_results>>
    /\ UNCHANGED <<conflictVars, icsVars, extractVars, parallelVars, cleanVars>>

\* The variables of the grid components when they are not in use.
IdleGrid ==
    /\ source = <<>>
    /\ wbook = <<>>
    /\ saved = {}
    /\ search_string = <<>>
    /\ search_results = <<>>
    /\ output_save = ""

\* The variables of the conflict detector when it is not in use.
IdleConflict ==
    /\ caller_df = <<>>
    /\ combined_df = <<>>
    /\ conflicts_df = <<>>

\* The variables of clean_text when it is not called on its own.
IdleClean ==
    /\ raw_text = <<>>
    /\ cleaned = <<>>
    /\ recleaned = <<>>

\* The variables of the concurrent callers when there are none.
IdleParallel ==
    /\ workbooks = <<>>
    /\ wbooks = <<>>
    /\ running = <<>>

\* The variables of the extractors when they are not in use.
IdleExtract ==
    /\ call = <<>>
    /\ groups_row = <<>>
    /\ occurences = <<>>
    /\ extracted = [outcome |-> "not run", events |-> <<>>]

\* The variables of the calendar codec when it is not in use.
NotRun == [outcome |-> "not run", events |-> <<>>]

IdleIcs ==
    /\ ics_file = <<>>
    /\ now = 0
    /\ parsed = NotRun
    /\ events_df = <<>>
    /\ output_file = <<>>
    /\ reparsed = NotRun

InitUnmerge ==
    /\ pc = "loaded"
    /\ IdleConflict
    /\ IdleIcs
    /\ IdleParallel
    /\ IdleClean
    /\ IdleExtract
    /\ \E fill \in Fills, ms \in [1..Len(Sheets) -> RangeSets(MaxMerged)] :
          /\ CountRanges(ms, Len(Sheets)) <= MaxMerged
          /\ source = [i \in 1..Len(Sheets) |-> LoadedSheet(i, ms[i], fill)]
    /\ wbook = <<>>
    /\ saved = {}
    /\ search_string = <<>>
    /\ search_results = <<>>
    /\ output_save = ""

NextUnmerge == \E path \in OutputPaths : UnmergeCall(path)

SpecUnmerge == InitUnmerge /\ [][NextUnmerge]_vars

\* C1: after unmerge_cell_copy_top_value, every cell of every rectangle
\* that was merged in the source holds the value the rectangle's top-left
\* cell had before, and no sheet has a merged range left.
C1_MergedCellsHoldTopLeft ==
    pc = "normalized" =>
        \A i \in 1..Len(source) :
            /\ wbook[i].merged = {}
            /\ \A r \in source[i].merged : \A c \in Coords :
                  InRange(c, r) =>
                      wbook[i].cells[c] =
                          source[i].cells[<<r.min_col, r.min_row>>]

\* A normalised workbook whose source had, on its last sheet, a rectangle
\* of several cells that held other values than its top-left cell, and a
\* one-cell rectangle.
C1_Witness ==
    /\ pc = "normalized"
    /\ \E r, q \in source[Len(source)].merged :
          /\ (r.min_col < r.max_col \/ r.min_row < r.max_row)
          /\ \E c \in Coords :
                /\ InRange(c, r)
                /\ source[Len(source)].cells[c] #
                       source[Len(source)].cells[<<r.min_col, r.min_row>>]
          /\ q.min_col = q.max_col /\ q.min_row = q.max_row

(***************************************************************************)
(* search_string_in_workbook and search_string_in_worksheet.               *)
(***************************************************************************)
\* Python's `search_string in value` on two texts: a contiguous,
\* case-sensitive occurrence anywhere in value.
IsSubstring(s, t) ==
    \E k \in 1..(Len(t) - Len(s) + 1) : SubSeq(t, k, k + Len(s) - 1) = s

Alphabet ==
    <<"A", "B", "C", "D", "E", "F", "G", "H", "I", "J", "K", "L", "M",
      "N", "O", "P", "Q", "R", "S", "T", "U", "V", "W", "X", "Y", "Z">>

\* openpyxl.utils.get_column_letter, for the columns A to ZZ.
get_column_letter(n) ==
    IF n <= Len(Alphabet) THEN <<Alphabet[n]>>
    ELSE <<Alphabet[(n - 1) \div Len(Alphabet)],
           Alphabet[((n - 1) % Len(Alphabet)) + 1]>>

DecimalDigits == <<"0", "1", "2", "3", "4", "5", "6", "7", "8", "9">>

\* str(n) of a natural number: its decimal digits.
RECURSIVE str_of_int(_)
str_of_int(n) ==
    IF n < Len(DecimalDigits) THEN <<DecimalDigits[n + 1]>>
    ELSE str_of_int(n \div Len(DecimalDigits))
             \o <<DecimalDigits[(n % Len(DecimalDigits)) + 1]>>

\* cell.coordinate, e.g. "B2": the text made of the column letters and the
\* digits of the row.
coordinate(c) == get_column_letter(c[1]) \o str_of_int(c[2])

\* sheet.iter_rows(): the cells of the sheet row by row, and within a row
\* column by column.
RECURSIVE Ascending(_)
Ascending(numbers) ==
    IF numbers = {} THEN <<>>
    ELSE LET least == CHOOSE n \in numbers : \A m \in numbers : n <= m
         IN  <<least>> \o Ascending(numbers \ {least})

iter_rows(sheet) ==
    LET cells == DOMAIN sheet.cells
        rows  == Ascending({ c[2] : c \in cells })
        cols  == Ascending({ c[1] : c \in cells })
        n     == Len(cols)
    IN  SelectSeq([k \in 1..(Len(rows) * n) |->
                      <<cols[((k - 1) % n) + 1], rows[((k - 1) \div n) + 1]>>],
                  LAMBDA c : c \in cells)

\* Mutant: the string must start the cell's text (an anchored match).
CellMatches_Anchored(value, string) ==
    /\ Truthy(value)
    /\ value.kind = "str"
    /\ Len(string) <= Len(value.val)
    /\ SubSeq(value.val, 1, Len(string)) = string

\* if cell.value and isinstance(cell.value, str):
\*     if search_string in cell.value:
CellMatches(value, string) ==
    /\ Truthy(value)
    /\ value.kind = "str"
    /\ IsSubstring(string, value.val)

search_string_in_worksheet(sheet, string) ==
    LET hits == SelectSeq(iter_rows(sheet),
                          LAMBDA c : CellMatches(sheet.cells[c], string))
    IN  [k \in 1..Len(hits) |->
            <<sheet.title, coordinate(hits[k]), sheet.cells[hits[k]]>>]

\* for sheet in wbook.worksheets: search_results += ...
RECURSIVE SearchSheets(_, _, _)
SearchSheets(wb, string, n) ==
    IF n = 0 THEN <<>>
    ELSE SearchSheets(wb, string, n - 1)
             \o search_string_in_worksheet(wb[n], string)

search_string_in_workbook(wb, string) == SearchSheets(wb, string, Len(wb))

\* A call search_string_in_workbook(wbook, search_string).
SearchCall(string) ==
    /\ pc = "searchable"
    /\ search_string' = string
    /\ search_results' = search_string_in_workbook(wbook, string)
    /\ pc' = "searched"
    /\ UNCHANGED <<source, wbook, saved, output_save>>
    /\ UNCHANGED <<conflictVars, icsVars, extractVars, parallelVars, cleanVars>>

\* Texts of the model, written as sequences of characters.
SearchStrings == {<<>>, <<"a">>, <<"b">>, <<"B">>, <<"a", "b">>}

CellValues ==
    {Str(<<>>), Str(<<"b">>), Str(<<"a", "b">>), IntVal(7), DateVal(1)}

\* The searched workbooks have at most MaxFilled cells that are not None.
MaxFilled == 2

AllCells == (1..Len(Sheets)) \X Coords

SparseWorkbook(vals) ==
    [i \in 1..Len(Sheets) |->
        [title  |-> Sheets[i],
         cells  |-> [c \in Coords |->
                        IF <<i, c>> \in DOMAIN vals THEN vals[<<i, c>>]
                        ELSE None],
         merged |-> {}]]

InitSearch ==
    /\ pc = "searchable"
    /\ IdleConflict
    /\ IdleIcs
    /\ IdleParallel
    /\ IdleClean
    /\ IdleExtract
    /\ \E filled \in {f \in SUBSET AllCells : Cardinality(f) <= MaxFilled} :
          \E vals \in [filled -> CellValues] : wbook = SparseWorkbook(vals)
    /\ source = <<>>
    /\ saved = {}
    /\ search_string = <<>>
    /\ search_results = <<>>
    /\ output_save = ""

NextSearch == \E string \in SearchStrings : SearchCall(string)

SpecSearch == InitSearch /\ [][NextSearch]_vars

SheetIndex(title) == CHOOSE i \in 1..Len(Sheets) : Sheets[i] = title

\* The cell whose coordinate text is coord.
CellAt(coord) == CHOOSE c \in Coords : coordinate(c) = coord

\* The triples of the cells whose value is a non-empty text that contains
\* the search string.
ExpectedMatches ==
    { <<wbook[i].title, coordinate(c), wbook[i].cells[c]>> :
        <<i, c>> \in
            { ic \in AllCells :
                LET v == wbook[ic[1]].cells[ic[2]]
                IN  /\ v.kind = "str"
                    /\ v.val # <<>>
                    /\ \E a, b \in 0..Len(v.val) :
                          a <= b /\ SubSeq(v.val, a + 1, b) = search_string } }

\* Position of a result in sheet order, then row, then column.
Before(x, y) ==
    \/ SheetIndex(x[1]) < SheetIndex(y[1])
    \/ /\ x[1] = y[1]
       /\ \/ CellAt(x[2])[2] < CellAt(y[2])[2]
          \/ /\ CellAt(x[2])[2] = CellAt(y[2])[2]
             /\ CellAt(x[2])[1] < CellAt(y[2])[1]

\* C10: search_string_in_workbook returns exactly the (sheet, coordinate,
\* value) triples of the cells whose value is a non-empty text containing
\* the search string (case-sensitive), never a cell with a non-text value,
\* no (sheet, coordinate) twice, in sheet order and row-major within a sheet.
C10_SearchReturnsMatches ==
    pc = "searched" =>
        /\ { search_results[k] : k \in 1..Len(search_results) } = ExpectedMatches
        /\ \A k \in 1..Len(search_results) : search_results[k][3].kind = "str"
        /\ \A j, k \in 1..Len(search_results) :
              j < k => Before(search_results[j], search_results[k])

\* A search that returned two cells of one sheet, the first in an earlier
\* row but a later column than the second.
C10_Witness ==
    /\ pc = "searched"
    /\ Len(search_results) = 2
    /\ search_results[1][1] = search_results[2][1]
    /\ CellAt(search_results[1][2])[2] < CellAt(search_results[2][2])[2]
    /\ CellAt(search_results[1][2])[1] > CellAt(search_results[2][2])[1]

(***************************************************************************)
(* find_conflicting_events.  An event collection (a DataFrame) is the      *)
(* sequence of its rows; a row has a summary and the instants dtstart and  *)
(* dtend, counted in ticks from 0 to MaxTime.                              *)
(***************************************************************************)
Summaries == <<"A", "B", "C">>

MaxTime == 3

Instants == 0..MaxTime

EventRow(summary, dtstart, dtend) ==
    [summary |-> summary, dtstart |-> dtstart, dtend |-> dtend]

\* The collections of n events of the model (n up to Len(Summaries)): the
\* k-th is named Summaries[k] and has any start and any end.
EventFrames(n) ==
    { [k \in 1..n |-> EventRow(Summaries[k], t[k][1], t[k][2])] :
        t \in [1..n -> Instants \X Instants] }

Orderings(n) ==
    { p \in [1..n -> 1..n] : \A i, j \in 1..n : i # j => p[i] # p[j] }

\* Mutant: the collection is scanned in the order the caller gave.
sort_values_AsGiven(df) == {df}

\* combined_df.sort_values(by='dtstart').reset_index(drop=True): a new
\* collection with the same rows, in ascending order of dtstart.  The
\* default sort is not stable, so rows with equal dtstart come in any order.
sort_values(df) ==
    { [k \in 1..Len(df) |-> df[p[k]]] : p \in
        { q \in Orderings(Len(df)) :
            \A i, j \in 1..Len(df) :
                i < j => df[q[i]].dtstart <= df[q[j]].dtstart } }

\* Mutant: the sort is done in place (inplace=True).
AfterSort_InPlace(df, sorted) == sorted

\* The collection the caller holds once sort_values has returned
\* (sort_values is called without inplace=True).
AfterSort(df, sorted) == df

\* Mutant: events that only touch conflict too.
Conflicting_OrTouching(current_event, previous_event) ==
    current_event.dtstart <= previous_event.dtend

\* if current_event['dtstart'] < previous_event['dtend']:
Conflicting(current_event, previous_event) ==
    current_event.dtstart < previous_event.dtend

ConflictRecord(previous_event, current_event) ==
    [event1_summary |-> previous_event.summary,
     event1_dtstart |-> previous_event.dtstart,
     event1_dtend   |-> previous_event.dtend,
     event2_summary |-> current_event.summary,
     event2_dtstart |-> current_event.dtstart,
     event2_dtend   |-> current_event.dtend]

\* Mutant: the scan stops at the first conflict it finds.
RECURSIVE ConflictLoop_StopAtFirst(_, _, _)
ConflictLoop_StopAtFirst(df, i, conflicts) ==
    IF i > Len(df) THEN conflicts
    ELSE IF df[i].dtstart < df[i - 1].dtend
         THEN Append(conflicts, ConflictRecord(df[i - 1], df[i]))
         ELSE ConflictLoop_StopAtFirst(df, i + 1, conflicts)

\* Mutant: a new record is put in front of the earlier ones.
RECURSIVE ConflictLoop_Prepend(_, _, _)
ConflictLoop_Prepend(df, i, conflicts) ==
    IF i > Len(df) THEN conflicts
    ELSE ConflictLoop_Prepend(df, i + 1,
             IF df[i].dtstart < df[i - 1].dtend
             THEN <<ConflictRecord(df[i - 1], df[i])>> \o conflicts
             ELSE conflicts)

\* for i in range(1, len(combined_df)): ... conflicts.append(...)
\* (rows are numbered from 1 here, so the loop starts at 2).
RECURSIVE ConflictLoop(_, _, _)
ConflictLoop(df, i, conflicts) ==
    IF i > Len(df) THEN conflicts
    ELSE ConflictLoop(df, i + 1,
             IF Conflicting(df[i], df[i - 1])
             THEN Append(conflicts, ConflictRecord(df[i - 1], df[i]))
             ELSE conflicts)

\* A call find_conflicting_events(caller_df).
FindConflictsCall ==
    /\ pc = "events"
    /\ \E sorted \in sort_values(caller_df) :
          /\ combined_df' = sorted
          /\ caller_df' = AfterSort(caller_df, sorted)
          /\ conflicts_df' = ConflictLoop(sorted, 2, <<>>)
    /\ pc' = "conflicts_found"
    /\ UNCHANGED <<gridVars, icsVars, extractVars, parallelVars, cleanVars>>

InitConflict ==
    /\ pc = "events"
    /\ \E n \in 0..Len(Summaries) : caller_df \in EventFrames(n)
    /\ combined_df = <<>>
    /\ conflicts_df = <<>>
    /\ IdleGrid
    /\ IdleIcs
    /\ IdleParallel
    /\ IdleClean
    /\ IdleExtract

NextConflict == FindConflictsCall

SpecConflict == InitConflict /\ [][NextConflict]_vars

\* The conflict record rec pairs e1 as event1 with e2 as event2.
Pairs(rec, e1, e2) ==
    /\ rec.event1_summary = e1.summary
    /\ rec.event1_dtstart = e1.dtstart
    /\ rec.event1_dtend = e1.dtend
    /\ rec.event2_summary = e2.summary
    /\ rec.event2_dtstart = e2.dtstart
    /\ rec.event2_dtend = e2.dtend

Rows(df) == { df[k] : k \in 1..Len(df) }

Records == Rows(conflicts_df)

\* C2: the events are sorted by start ascending, and a conflict is
\* recorded for position i of the sorted sequence exactly when the start of
\* event i is strictly less than the end of event i-1; two events that only
\* touch yield no conflict, and two events of which the second starts
\* inside the first yield exactly one conflict, the first as event1 and the
\* second as event2.
C2_ConflictIffStartBeforePreviousEnd ==
    pc = "conflicts_found" =>
        LET n == Len(combined_df)
        IN  /\ n = Len(caller_df)
            /\ Rows(combined_df) = Rows(caller_df)
            /\ \A i \in 2..n :
                  combined_df[i - 1].dtstart <= combined_df[i].dtstart
            /\ \A i \in 2..n :
                  (\E rec \in Records :
                      Pairs(rec, combined_df[i - 1], combined_df[i]))
                  <=> combined_df[i].dtstart < combined_df[i - 1].dtend
            /\ \A a, b \in Rows(caller_df) :
                  (n = 2 /\ a.dtstart < a.dtend /\ b.dtstart = a.dtend
                         /\ b.dtstart < b.dtend)
                  => conflicts_df = <<>>
            /\ \A a, b \in Rows(caller_df) :
                  (n = 2 /\ a.dtstart < b.dtstart /\ b.dtstart < a.dtend)
                  => Len(conflicts_df) = 1 /\ Pairs(conflicts_df[1], a, b)

\* Three events: the second only touches the first (no conflict), the
\* third starts inside the second (one conflict).
C2_Witness ==
    /\ pc = "conflicts_found"
    /\ Len(combined_df) = 3
    /\ combined_df[1].dtstart < combined_df[1].dtend
    /\ combined_df[2].dtstart = combined_df[1].dtend
    /\ combined_df[2].dtstart < combined_df[3].dtstart
    /\ combined_df[3].dtstart < combined_df[2].dtend
    /\ Len(conflicts_df) = 1

Overlap(a, b) == a.dtstart < b.dtend /\ b.dtstart < a.dtend

\* The event of the caller's collection with exactly k - 1 events starting
\* before it (defined when the starts are distinct).
ByStart(k) ==
    CHOOSE e \in Rows(caller_df) :
        Cardinality({ f \in Rows(caller_df) : f.dtstart < e.dtstart }) = k - 1

PairwiseOverlappingTriple ==
    /\ Len(caller_df) = 3
    /\ \A j, k \in 1..3 :
          j # k => /\ caller_df[j].dtstart # caller_df[k].dtstart
                   /\ Overlap(caller_df[j], caller_df[k])

\* C3: for three events that overlap pairwise and have distinct starts,
\* exactly two conflicts are reported, (first, second) then (second, third)
\* in start order, and none that pairs the first with the third.
C3_ThreeOverlappingGiveTwoConflicts ==
    (pc = "conflicts_found" /\ PairwiseOverlappingTriple) =>
        /\ Len(conflicts_df) = 2
        /\ Pairs(conflicts_df[1], ByStart(1), ByStart(2))
        /\ Pairs(conflicts_df[2], ByStart(2), ByStart(3))
        /\ \A rec \in Records :
              ~ Pairs(rec, ByStart(1), ByStart(3))
              /\ ~ Pairs(rec, ByStart(3), ByStart(1))

\* Three pairwise overlapping events given out of start order.
C3_Witness ==
    /\ pc = "conflicts_found"
    /\ PairwiseOverlappingTriple
    /\ caller_df[3].dtstart < caller_df[1].dtstart
    /\ caller_df[1].dtstart < caller_df[2].dtstart
    /\ \A k \in 1..3 : caller_df[k].dtstart < caller_df[k].dtend

\* The position in the sorted sequence of the event2 of a record (the
\* summaries of the model's events are distinct).
Position(rec) ==
    CHOOSE i \in 1..Len(combined_df) :
        combined_df[i].summary = rec.event2_summary

\* C4: the result is a sequence with one record per adjacent overlapping
\* pair of the sorted input: the records come in ascending order of
\* event2's start, event1 is the event just before event2 in sorted order,
\* no event is event2 of two records, and n events give at most n-1
\* records (none when n <= 1).
C4_OneRecordPerAdjacentPairInOrder ==
    pc = "conflicts_found" =>
        LET n == Len(combined_df)
            m == Len(conflicts_df)
        IN  /\ \A k \in 1..m :
                  /\ Position(conflicts_df[k]) >= 2
                  /\ Pairs(conflicts_df[k],
                           combined_df[Position(conflicts_df[k]) - 1],
                           combined_df[Position(conflicts_df[k])])
            /\ \A j, k \in 1..m :
                  j < k =>
                      /\ Position(conflicts_df[j]) < Position(conflicts_df[k])
                      /\ conflicts_df[j].event2_dtstart
                             <= conflicts_df[k].event2_dtstart
            /\ m = Cardinality({ i \in 2..n :
                      combined_df[i].dtstart < combined_df[i - 1].dtend })
            /\ (n <= 1 => m = 0)
            /\ (n >= 1 => m <= n - 1)

\* Three events given out of start order with two conflicts, the first and
\* the last of them (in start order) not overlapping.
C4_Witness ==
    /\ pc = "conflicts_found"
    /\ Len(conflicts_df) = 2
    /\ conflicts_df[1].event2_dtstart < conflicts_df[2].event2_dtstart
    /\ caller_df # combined_df
    /\ ~ Overlap(combined_df[1], combined_df[3])

\* C5: find_conflicting_events leaves the caller's collection as it was:
\* the same events, in the same order, with the same values.
C5_CallerCollectionUnchanged ==
    [][(pc = "events" /\ pc' = "conflicts_found") => caller_df' = caller_df]_vars

\* A call whose sorted local copy differs from the caller's collection.
C5_Witness ==
    /\ pc = "conflicts_found"
    /\ Len(caller_df) = 3
    /\ combined_df # caller_df
    /\ caller_df[1].dtstart > caller_df[2].dtstart

(***************************************************************************)
(* read_ics and df_to_ics.  Time is counted in ticks, the resolution of a  *)
(* datetime; TicksPerSecond ticks make a second (the resolution of a       *)
(* DATE-TIME value of a calendar file) and SecondsPerDay seconds a day.    *)
(* A property value .dt is a date, a naive datetime (wall clock, no zone)  *)
(* or an aware datetime (wall clock and zone).                             *)
(***************************************************************************)
TicksPerSecond == 2

SecondsPerDay == 2

TicksPerDay == SecondsPerDay * TicksPerSecond

Days == {0, 1}

Seconds == 0..(Cardinality(Days) * SecondsPerDay - 1)

Zones == {"UTC", "Europe/Paris"}

\* The zone's offset from UTC: Europe/Paris is one unit east of UTC (the
\* unit of the model is its second).
utcoffset(tz) == IF tz = "Europe/Paris" THEN TicksPerSecond ELSE 0

Date(d) == [kind |-> "date", t |-> d, tz |-> ""]

Naive(t) == [kind |-> "naive", t |-> t, tz |-> ""]

Aware(t, tz) == [kind |-> "aware", t |-> t, tz |-> tz]

\* component.get('dtstart') is None: the component has no such property.
Absent == [kind |-> "absent", t |-> 0, tz |-> ""]

\* The instant of an aware datetime, in ticks of UTC: aware datetimes are
\* compared and subtracted as instants.
Instant(dt) == dt.t - utcoffset(dt.tz)

\* if isinstance(dtstart, datetime): if not dtstart.tzinfo: replace(UTC)
\* else: datetime.combine(dtstart, time.min, tzinfo=pytz.UTC)
NormalizeStart(dtstart) ==
    CASE dtstart.kind = "aware" -> dtstart
      [] dtstart.kind = "naive" -> Aware(dtstart.t, "UTC")
      [] OTHER -> Aware(dtstart.t * TicksPerDay, "UTC")

\* Mutant: a date is anchored to the start of its day.
NormalizeEnd_StartOfDay(dtend) ==
    CASE dtend.kind = "aware" -> dtend
      [] dtend.kind = "naive" -> Aware(dtend.t, "UTC")
      [] OTHER -> Aware(dtend.t * TicksPerDay, "UTC")

\* The same for dtend, with time.max: the last tick of the day.
NormalizeEnd(dtend) ==
    CASE dtend.kind = "aware" -> dtend
      [] dtend.kind = "naive" -> Aware(dtend.t, "UTC")
      [] OTHER -> Aware(dtend.t * TicksPerDay + TicksPerDay - 1, "UTC")

\* Mutant: an event that starts at `now` is skipped too.
InThePast_OrNow(dtstart, now_utc) == Instant(dtstart) <= Instant(now_utc)

\* if dtstart < now:
InThePast(dtstart, now_utc) == Instant(dtstart) < Instant(now_utc)

Raised == [outcome |-> "error", events |-> <<>>]

\* The event dict of one component.
EventOf(component, dtstart, dtend) ==
    [summary     |-> component.summary,
     dtstart     |-> dtstart,
     dtend       |-> dtend,
     location    |-> component.location,
     description |-> component.description]

\* for component in gcal.walk(): ...   A property that is absent makes
\* component.get(...).dt raise, which ends the call.
RECURSIVE ReadLoop(_, _, _, _)
ReadLoop(components, i, now_utc, events) ==
    IF i > Len(components) THEN [outcome |-> "ok", events |-> events]
    ELSE LET component == components[i]
         IN  IF component.name # "VEVENT"
             THEN ReadLoop(components, i + 1, now_utc, events)
             ELSE IF component.dtstart = Absent THEN Raised
             ELSE LET dtstart == NormalizeStart(component.dtstart)
                  IN  IF InThePast(dtstart, now_utc)
                      THEN ReadLoop(components, i + 1, now_utc, events)
                      ELSE IF component.dtend = Absent THEN Raised
                      ELSE ReadLoop(components, i + 1, now_utc,
                               Append(events,
                                   EventOf(component, dtstart,
                                           NormalizeEnd(component.dtend))))

\* now = datetime.now().replace(tzinfo=utc): the wall clock of the host,
\* labelled UTC.
read_ics(components, wall_clock) ==
    ReadLoop(components, 1, Aware(wall_clock, "UTC"), <<>>)

\* A call read_ics(file_path) on the calendar file.
ReadIcsCall ==
    /\ pc = "file"
    /\ parsed' = read_ics(ics_file, now)
    /\ events_df' = parsed'.events
    /\ pc' = IF parsed'.outcome = "ok" THEN "frame" ELSE "failed"
    /\ UNCHANGED <<ics_file, now, output_file, reparsed>>
    /\ UNCHANGED <<gridVars, conflictVars, extractVars, parallelVars, cleanVars>>

(***************************************************************************)
(* The calendar files of the model.                                        *)
(***************************************************************************)
TickOf(second) == second * TicksPerSecond

\* The values of DTSTART: a date, or a datetime of whole seconds, naive or
\* with a zone.
StartValues ==
    { Date(d) : d \in Days }
        \cup { Naive(TickOf(sec)) : sec \in Seconds }
        \cup { Aware(TickOf(sec), tz) : sec \in Seconds, tz \in Zones }

\* DTEND has the value type of DTSTART; it is `length` days or seconds
\* later.
Lengths == {0, 1}

EndValue(dtstart, length) ==
    IF dtstart.kind = "date"
    THEN Date(dtstart.t + length)
    ELSE [dtstart EXCEPT !.t = @ + TickOf(length)]

\* DTSTART and DTEND of a VEVENT; either may be absent.
Timings ==
    { <<st, EndValue(st, length)>> : st \in StartValues, length \in Lengths }
        \cup { <<st, Absent>> : st \in StartValues }
        \cup { <<Absent, Date(0)>> }

\* LOCATION and DESCRIPTION of the VEVENTs of a file: both absent, only
\* LOCATION present, or both present (component.get gives None when absent).
Extras ==
    { <<None, None>>, <<Str(<<"R">>), None>>, <<Str(<<"R">>), Str(<<"D">>)>> }

DocSummaries == <<"X", "Y">>

Component(k, name, timing, extra) ==
    [name        |-> name,
     summary     |-> DocSummaries[k],
     dtstart     |-> timing[1],
     dtend       |-> timing[2],
     location    |-> extra[1],
     description |-> extra[2]]

\* The k-th component of a file: a VEVENT, or a component of another kind.
ComponentsAt(k, extra) ==
    { Component(k, "VEVENT", timing, extra) : timing \in Timings }
        \cup { Component(k, "VTODO", <<Date(0), Date(0)>>, extra) }

\* The files of n components.
RECURSIVE DocumentsOf(_, _)
DocumentsOf(n, extra) ==
    IF n = 0 THEN {<<>>}
    ELSE { Append(doc, component) :
             doc \in DocumentsOf(n - 1, extra),
             component \in ComponentsAt(n, extra) }

\* The wall clock readings of the model: the ticks of day 0.
Clock == 0..(TicksPerDay - 1)

InitIcsFile ==
    /\ pc = "file"
    /\ \E n \in 0..Len(DocSummaries), extra \in Extras :
          ics_file \in DocumentsOf(n, extra)
    /\ now \in Clock
    /\ parsed = NotRun
    /\ events_df = <<>>
    /\ output_file = <<>>
    /\ reparsed = NotRun
    /\ IdleGrid
    /\ IdleConflict
    /\ IdleExtract
    /\ IdleParallel
    /\ IdleClean

(***************************************************************************)
(* df_to_ics.                                                              *)
(***************************************************************************)
\* A row that has no such column: row.get(name, default) gives default.
Missing == [kind |-> "missing", val |-> <<>>]

row_get(value, default) == IF value = Missing THEN default ELSE value

\* The text of a property value: a text is written as it is, any other
\* value as its str(): None is written as the text "None".
vText(value) ==
    IF value = None THEN Str(<<"N", "o", "n", "e">>) ELSE value

\* The DATE-TIME written for an aware datetime and read back from the
\* file: year to second and the zone ("Z" for UTC, a TZID otherwise); the
\* format has no field below the second.
to_ical(dt) == Aware(dt.t - (dt.t % TicksPerSecond), dt.tz)

\* event = Event(); event.add(...) five times; cal.add_component(event)
VEvent(row) ==
    [name        |-> "VEVENT",
     summary     |-> row.summary,
     dtstart     |-> to_ical(row.dtstart),
     dtend       |-> to_ical(row.dtend),
     location    |-> vText(row_get(row.location, Str(<<>>))),
     description |-> vText(row_get(row.description, Str(<<>>)))]

\* for index, row in df.iterrows(): ...; f.write(cal.to_ical())
df_to_ics(df) == [k \in 1..Len(df) |-> VEvent(df[k])]

\* A call df_to_ics(events_df, output_file).
DfToIcsCall ==
    /\ pc = "frame"
    /\ output_file' = df_to_ics(events_df)
    /\ pc' = "written"
    /\ UNCHANGED <<ics_file, now, parsed, events_df, reparsed>>
    /\ UNCHANGED <<gridVars, conflictVars, extractVars, parallelVars, cleanVars>>

\* A call read_ics(output_file) on the file df_to_ics wrote, with the
\* same clock reading.
ReadBackCall ==
    /\ pc = "written"
    /\ reparsed' = read_ics(output_file, now)
    /\ pc' = "reparsed"
    /\ UNCHANGED <<ics_file, now, parsed, events_df, output_file>>
    /\ UNCHANGED <<gridVars, conflictVars, extractVars, parallelVars, cleanVars>>

\* The collections a caller builds itself (as from the extractors' event
\* lists): rows with summary, dtstart and dtend only, aware datetimes of
\* whole seconds.
FrameRows(k) ==
    { [summary     |-> DocSummaries[k],
       dtstart     |-> Aware(TickOf(sec), tz),
       dtend       |-> Aware(TickOf(sec + length), tz),
       location    |-> Missing,
       description |-> Missing] :
        sec \in Seconds, tz \in Zones, length \in Lengths }

\* The collections of n rows.
RECURSIVE FramesOf(_)
FramesOf(n) ==
    IF n = 0 THEN {<<>>}
    ELSE { Append(df, row) : df \in FramesOf(n - 1), row \in FrameRows(n) }

InitFrame ==
    /\ pc = "frame"
    /\ \E n \in 0..Len(DocSummaries) : events_df \in FramesOf(n)
    /\ now \in Clock
    /\ ics_file = <<>>
    /\ parsed = NotRun
    /\ output_file = <<>>
    /\ reparsed = NotRun
    /\ IdleGrid
    /\ IdleConflict
    /\ IdleExtract
    /\ IdleParallel
    /\ IdleClean

InitIcs == InitIcsFile \/ InitFrame

NextIcs == ReadIcsCall \/ DfToIcsCall \/ ReadBackCall

SpecIcs == InitIcs /\ [][NextIcs]_vars

\* The instant a DTSTART value stands for: a date is the start of its day
\* in UTC, a datetime without zone is taken as UTC.
StartInstant(v) ==
    CASE v.kind = "date"  -> v.t * TicksPerDay
      [] v.kind = "naive" -> v.t
      [] OTHER            -> v.t - utcoffset(v.tz)

\* The positions in the file of the VEVENTs that do not start before now.
Kept ==
    SelectSeq([k \in 1..Len(ics_file) |-> k],
              LAMBDA k : /\ ics_file[k].name = "VEVENT"
                         /\ ics_file[k].dtstart # Absent
                         /\ StartInstant(ics_file[k].dtstart) >= now)

\* C6: read_ics returns no event that starts before the `now` taken at
\* parse time, and returns every VEVENT that does not start before it, in
\* the order of the file.
C6_PastEventsSkippedOthersReturned ==
    (pc \in {"frame", "written", "reparsed"} /\ parsed.outcome = "ok") =>
        /\ \A k \in 1..Len(parsed.events) :
              Instant(parsed.events[k].dtstart) >= now
        /\ Len(parsed.events) = Len(Kept)
        /\ \A k \in 1..Len(Kept) :
              /\ parsed.events[k].summary = ics_file[Kept[k]].summary
              /\ Instant(parsed.events[k].dtstart)
                     = StartInstant(ics_file[Kept[k]].dtstart)

\* A file of two VEVENTs read after midnight: the first is past and is
\* skipped, the second starts exactly at now and is returned.
C6_Witness ==
    /\ pc = "frame"
    /\ parsed.outcome = "ok"
    /\ now > 0
    /\ Len(ics_file) = 2
    /\ Len(parsed.events) = 1
    /\ parsed.events[1].summary = DocSummaries[2]
    /\ Instant(parsed.events[1].dtstart) = now
    /\ ics_file[1].name = "VEVENT"

\* C7: a DTSTART that is a date becomes the start of that day in UTC and a
\* DTEND that is a date the end of that day in UTC; a datetime without zone
\* becomes UTC with the same wall clock; a datetime with a zone is kept.
\* Every returned start and end is aware.
C7_DatesAndNaiveTimesBecomeUtc ==
    (pc \in {"frame", "written", "reparsed"} /\ parsed.outcome = "ok") =>
        \A k \in 1..Len(parsed.events) :
            LET event == parsed.events[k]
                component == ics_file[Kept[k]]
            IN  /\ event.dtstart.kind = "aware"
                /\ event.dtend.kind = "aware"
                /\ component.dtstart.kind = "date" =>
                      /\ event.dtstart.tz = "UTC"
                      /\ event.dtstart.t = component.dtstart.t * TicksPerDay
                /\ component.dtend.kind = "date" =>
                      /\ event.dtend.tz = "UTC"
                      /\ event.dtend.t =
                             (component.dtend.t + 1) * TicksPerDay - 1
                /\ component.dtstart.kind = "naive" =>
                      /\ event.dtstart.tz = "UTC"
                      /\ event.dtstart.t = component.dtstart.t
                /\ component.dtend.kind = "naive" =>
                      /\ event.dtend.tz = "UTC"
                      /\ event.dtend.t = component.dtend.t
                /\ component.dtstart.kind = "aware" =>
                      event.dtstart = component.dtstart
                /\ component.dtend.kind = "aware" =>
                      event.dtend = component.dtend

\* A parse that returned an all-day event and an event without zone.
C7_Witness ==
    /\ pc = "frame"
    /\ parsed.outcome = "ok"
    /\ Len(parsed.events) = 2
    /\ ics_file[1].dtstart.kind = "date"
    /\ ics_file[1].dtend.kind = "date"
    /\ ics_file[1].dtend.t > ics_file[1].dtstart.t
    /\ ics_file[2].dtstart.kind = "naive"

\* C8: events that do not start before now, written by df_to_ics and read
\* again by read_ics, come back in the same number and order, each with
\* the same summary and the same start and end instants.
C8_RoundTripKeepsEvents ==
    (/\ pc = "reparsed"
     /\ \A k \in 1..Len(events_df) : Instant(events_df[k].dtstart) >= now)
    => /\ reparsed.outcome = "ok"
       /\ Len(reparsed.events) = Len(events_df)
       /\ \A k \in 1..Len(events_df) :
             /\ reparsed.events[k].summary = events_df[k].summary
             /\ Instant(reparsed.events[k].dtstart)
                    = Instant(events_df[k].dtstart)
             /\ Instant(reparsed.events[k].dtend)
                    = Instant(events_df[k].dtend)

\* C9: df_to_ics writes one VEVENT per event, in the order of the events,
\* with the event's summary, start and end; an event without location or
\* description gets the empty text as LOCATION or DESCRIPTION.
C9_OneVEventPerEventWithDefaults ==
    pc \in {"written", "reparsed"} =>
        /\ Len(output_file) = Len(events_df)
        /\ \A k \in 1..Len(events_df) :
              /\ output_file[k].name = "VEVENT"
              /\ output_file[k].summary = events_df[k].summary
              /\ Instant(output_file[k].dtstart) = Instant(events_df[k].dtstart)
              /\ Instant(output_file[k].dtend) = Instant(events_df[k].dtend)
              /\ events_df[k].location \in {Missing, None} =>
                    output_file[k].location = Str(<<>>)
              /\ events_df[k].description \in {Missing, None} =>
                    output_file[k].description = Str(<<>>)

(***************************************************************************)
(* Text and date helpers of the schedule extractors.  A text is a sequence *)
(* of characters.                                                          *)
(***************************************************************************)
Whitespace == {" ", "\t", "\n", "\r", "\f"}

\* text.split(): the maximal runs of characters that are not whitespace.
RECURSIVE SplitFrom(_, _, _, _)
SplitFrom(text, i, token, tokens) ==
    LET closed == IF token = <<>> THEN tokens ELSE Append(tokens, token)
    IN  IF i > Len(text) THEN closed
        ELSE IF text[i] \in Whitespace
             THEN SplitFrom(text, i + 1, <<>>, closed)
             ELSE SplitFrom(text, i + 1, Append(token, text[i]), tokens)

split(text) == SplitFrom(text, 1, <<>>, <<>>)

RECURSIVE lstrip(_)
lstrip(text) ==
    IF text # <<>> /\ Head(text) \in Whitespace
    THEN lstrip(Tail(text)) ELSE text

RECURSIVE rstrip(_)
rstrip(text) ==
    IF text # <<>> /\ text[Len(text)] \in Whitespace
    THEN rstrip(SubSeq(text, 1, Len(text) - 1)) ELSE text

\* text.strip()
strip(text) == rstrip(lstrip(text))

\* text.split(sep) for a one-character separator: empty fields are kept.
RECURSIVE FieldsFrom(_, _, _, _, _)
FieldsFrom(text, sep, i, field, fields) ==
    IF i > Len(text) THEN Append(fields, field)
    ELSE IF text[i] = sep
         THEN FieldsFrom(text, sep, i + 1, <<>>, Append(fields, field))
         ELSE FieldsFrom(text, sep, i + 1, Append(field, text[i]), fields)

Fields(text, sep) == FieldsFrom(text, sep, 1, <<>>, <<>>)

IsDigit(ch) == \E d \in 1..Len(DecimalDigits) : DecimalDigits[d] = ch

\* One or two digits, as %d, %m, %H and %M accept; exactly two for %y.
IsNumber(field, least) ==
    /\ Len(field) >= least
    /\ Len(field) <= 2
    /\ \A k \in 1..Len(field) : IsDigit(field[k])

RECURSIVE int(_)
int(field) ==
    IF field = <<>> THEN 0
    ELSE int(SubSeq(field, 1, Len(field) - 1)) * Len(DecimalDigits)
             + (CHOOSE d \in 0..9 : DecimalDigits[d + 1] = field[Len(field)])

IsLeap(year) == year % 4 = 0 /\ (year % 100 # 0 \/ year % 400 = 0)

DaysInMonth(year, month) ==
    CASE month = 2 -> IF IsLeap(year) THEN 29 ELSE 28
      [] month \in {4, 6, 9, 11} -> 30
      [] OTHER -> 31

\* A datetime without zone: year to minute (the extractors never set a
\* second).
DateTime(year, month, day, hour, minute) ==
    [year |-> year, month |-> month, day |-> day,
     hour |-> hour, minute |-> minute]

\* strptime raised ValueError.
ValueError == DateTime(0, 0, 0, 0, 0)

\* %y: 69 to 99 are 1969 to 1999, 00 to 68 are 2000 to 2068.
Century(yy) == IF yy >= 69 THEN 1900 + yy ELSE 2000 + yy

\* Mutant: the format is read as '%m/%d/%y %H:%M'.
strptime_MonthFirst(text) ==
    LET parts == Fields(text, " ")
        mdy   == Fields(parts[1], "/")
        hm    == Fields(parts[2], ":")
    IN  IF /\ Len(parts) = 2 /\ Len(mdy) = 3 /\ Len(hm) = 2
           /\ IsNumber(mdy[1], 1) /\ IsNumber(mdy[2], 1)
           /\ IsNumber(mdy[3], 2)
           /\ IsNumber(hm[1], 1) /\ IsNumber(hm[2], 1)
           /\ int(mdy[1]) \in 1..12
           /\ int(mdy[2]) \in
                  1..DaysInMonth(Century(int(mdy[3])), int(mdy[1]))
        THEN DateTime(Century(int(mdy[3])), int(mdy[1]), int(mdy[2]),
                      int(hm[1]), int(hm[2]))
        ELSE ValueError

\* datetime.strptime(text, '%d/%m/%y %H:%M')
strptime(text) ==
    LET parts == Fields(text, " ")
        dmy   == Fields(parts[1], "/")
        hm    == Fields(parts[2], ":")
    IN  IF /\ Len(parts) = 2 /\ Len(dmy) = 3 /\ Len(hm) = 2
           /\ IsNumber(dmy[1], 1) /\ IsNumber(dmy[2], 1)
           /\ IsNumber(dmy[3], 2)
           /\ IsNumber(hm[1], 1) /\ IsNumber(hm[2], 1)
           /\ int(dmy[2]) \in 1..12
           /\ int(dmy[1]) \in
                  1..DaysInMonth(Century(int(dmy[3])), int(dmy[2]))
           /\ int(hm[1]) \in 0..23 /\ int(hm[2]) \in 0..59
        THEN DateTime(Century(int(dmy[3])), int(dmy[2]), int(dmy[1]),
                      int(hm[1]), int(hm[2]))
        ELSE ValueError

\* tz.localize(dt) with tz = pytz.timezone('Europe/Paris'): the same wall
\* clock, with the zone (the slot times are never in a clock change).
localize(dt) ==
    [year |-> dt.year, month |-> dt.month, day |-> dt.day,
     hour |-> dt.hour, minute |-> dt.minute, tz |-> "Europe/Paris"]

\* wbook[title]: the worksheet of that title.
SheetByTitle(wb, title) ==
    wb[CHOOSE i \in 1..Len(wb) : wb[i].title = title]

\* sheet[coord].value: a cell the sheet does not hold yet is created empty.
CellValue(sheet, coord) ==
    IF \E c \in DOMAIN sheet.cells : coordinate(c) = coord
    THEN sheet.cells[CHOOSE c \in DOMAIN sheet.cells : coordinate(c) = coord]
    ELSE None

(***************************************************************************)
(* extract_schedule_by_group_EI1.                                          *)
(***************************************************************************)
M1 == <<"M", "1">>

M2 == <<"M", "2">>

S1 == <<"S", "1">>

S2 == <<"S", "2">>

\* class_slots[slot] raised KeyError.
KeyError == <<>>

\* Mutant: a slot that is not a key gets the times of M1.
class_slots_EI1_Default(slot) ==
    CASE slot = M2 -> << <<"1", "0", ":", "1", "5">>, <<"1", "2", ":", "1", "5">> >>
      [] slot = S1 -> << <<"1", "3", ":", "4", "5">>, <<"1", "5", ":", "4", "5">> >>
      [] slot = S2 -> << <<"1", "6", ":", "0", "0">>, <<"1", "8", ":", "0", "0">> >>
      [] OTHER     -> << <<"0", "8", ":", "0", "0">>, <<"1", "0", ":", "0", "0">> >>

\* class_slots[slot] of extract_schedule_by_group_EI1.
class_slots_EI1(slot) ==
    CASE slot = M1 -> << <<"0", "8", ":", "0", "0">>, <<"1", "0", ":", "0", "0">> >>
      [] slot = M2 -> << <<"1", "0", ":", "1", "5">>, <<"1", "2", ":", "1", "5">> >>
      [] slot = S1 -> << <<"1", "3", ":", "4", "5">>, <<"1", "5", ":", "4", "5">> >>
      [] slot = S2 -> << <<"1", "6", ":", "0", "0">>, <<"1", "8", ":", "0", "0">> >>
      [] OTHER     -> KeyError

\* iter_rows(min_col=2, min_row=4, max_col=2, max_row=20)
LabelColumn == 2

FirstLabelRow == 4

LastLabelRow == 20

\* groups_row has not been assigned.
Unbound == <<>>

\* if cell.value and isinstance(cell.value, str): if group_name in cell.value:
GroupMatches(value, group_name) ==
    /\ Truthy(value)
    /\ value.kind = "str"
    /\ IsSubstring(group_name, value.val)

\* Mutant: the scan keeps the first row that matches.
GroupRowUpdate_KeepFirst(current, value, group_name, row) ==
    IF GroupMatches(value, group_name) /\ current = Unbound
    THEN str_of_int(row) ELSE current

\* groups_row=str(cell.row), when the cell matches.
GroupRowUpdate(current, value, group_name, row) ==
    IF GroupMatches(value, group_name) THEN str_of_int(row) ELSE current

\* The scan of column B of the first sheet for the group's row.
RECURSIVE GroupScan(_, _, _, _)
GroupScan(sheet, group_name, row, current) ==
    IF row > LastLabelRow THEN current
    ELSE GroupScan(sheet, group_name, row + 1,
             GroupRowUpdate(current,
                 IF <<LabelColumn, row>> \in DOMAIN sheet.cells
                 THEN sheet.cells[<<LabelColumn, row>>] ELSE None,
                 group_name, row))

\* Mutant: the type is read from the first token of the cell.
TypePrefix_FirstToken(tokens) ==
    SubSeq(tokens[1], 1, IF Len(tokens[1]) < 2 THEN Len(tokens[1]) ELSE 2)

\* occ[2].split()[1][:2]
TypePrefix(tokens) ==
    SubSeq(tokens[2], 1, IF Len(tokens[2]) < 2 THEN Len(tokens[2]) ELSE 2)

\* The event of an accepted occurrence, or Raised when a step raises.
EI1Event(wb, occ, group_name) ==
    LET sheet     == SheetByTitle(wb, occ[1])
        date_pos  == <<Head(occ[2])>> \o <<"3">>
        date_cell == CellValue(sheet, date_pos)
        slot_pos  == <<Head(occ[2])>> \o <<"4">>
        slot_cell == CellValue(sheet, slot_pos)
    IN  IF date_cell.kind # "str" \/ slot_cell.kind # "str" THEN Raised
        ELSE IF Len(split(date_cell.val)) < 2 THEN Raised
        ELSE LET date  == split(date_cell.val)[2]
                 slot  == strip(slot_cell.val)
                 times == class_slots_EI1(slot)
             IN  IF times = KeyError THEN Raised
                 ELSE LET dtstart == strptime(date \o <<" ">> \o times[1])
                          dtend   == strptime(date \o <<" ">> \o times[2])
                      IN  IF dtstart = ValueError \/ dtend = ValueError
                          THEN Raised
                          ELSE [summary |-> occ[3].val
                                    \o <<" ", "G", "r", "p", " ">>
                                    \o group_name,
                                dtstart |-> localize(dtstart),
                                dtend   |-> localize(dtend)]

\* for occ in occurences: ...
RECURSIVE EI1Loop(_, _, _, _, _, _)
EI1Loop(wb, occs, i, row, args, events) ==
    IF i > Len(occs) THEN [outcome |-> "ok", events |-> events]
    ELSE IF row = Unbound THEN Raised
    ELSE IF Tail(occs[i][2]) # row
         THEN EI1Loop(wb, occs, i + 1, row, args, events)
    ELSE IF Len(split(occs[i][3].val)) < 2 THEN Raised
    ELSE IF ~ IsSubstring(TypePrefix(split(occs[i][3].val)), args.course_type)
         THEN EI1Loop(wb, occs, i + 1, row, args, events)
    ELSE LET event == EI1Event(wb, occs[i], args.group_name)
         IN  IF event = Raised THEN Raised
             ELSE EI1Loop(wb, occs, i + 1, row, args, Append(events, event))

\* A call extract_schedule_by_group_EI1(file_path, course_name, group_name,
\* course_type) on the timetable file.
ExtractEI1Call ==
    /\ pc = "timetable"
    /\ output_save' = ""
    /\ wbook' = unmerge_cell_copy_top_value(source)
    /\ saved' = Save(saved, output_save', wbook')
    /\ groups_row' = GroupScan(wbook'[1], call.group_name, FirstLabelRow,
                               Unbound)
    /\ occurences' = search_string_in_workbook(wbook', call.course_name)
    /\ extracted' = EI1Loop(wbook', occurences', 1, groups_row', call, <<>>)
    /\ pc' = IF extracted'.outcome = "ok" THEN "extracted" ELSE "failed"
    /\ UNCHANGED <<source, search_string, search_results>>
    /\ UNCHANGED <<call, conflictVars, icsVars, parallelVars, cleanVars>>

(***************************************************************************)
(* The timetables of the model, in the layout extract_schedule_by_group_EI1*)
(* reads: row 3 holds the dates, row 4 the slots, column B the groups.     *)
(* The sheets hold the columns B, C, D and AA and the rows 3 to 6 and 21;  *)
(* the other cells are empty and left out.                                 *)
(***************************************************************************)
EI1Coords == {2, 3, 4, 27} \X {3, 4, 5, 6, 21}

G1 == <<"G", "1">>

G2 == <<"G", "2">>

FL == <<"F", "L">>

FL_TP == <<"F", "L", " ", "T", "P">>

FL_TD == <<"F", "L", " ", "T", "D">>

TP == <<"T", "P">>

TP_TD == <<"T", "P", ",", "T", "D">>

Lundi_10_03_25 ==
    <<"L", "u", "n", "d", "i", " ", "1", "0", "/", "0", "3", "/", "2", "5">>

Mardi_11_03_25 ==
    <<"M", "a", "r", "d", "i", " ", "1", "1", "/", "0", "3", "/", "2", "5">>

Jeudi_13_03_25 ==
    <<"J", "e", "u", "d", "i", " ", "1", "3", "/", "0", "3", "/", "2", "5">>

Lundi_17_03_25 ==
    <<"L", "u", "n", "d", "i", " ", "1", "7", "/", "0", "3", "/", "2", "5">>

\* The headers of column D of the first sheet, rows 3 and 4: a date and a
\* slot; a slot that is no key; a date without day name; a date that does
\* not exist; no slot.
HeaderPairs ==
    { <<Str(Mardi_11_03_25), Str(<<" ">> \o S1 \o <<" ">>)>>,
      <<Str(Mardi_11_03_25), Str(<<"M", "3">>)>>,
      <<Str(<<"1", "1", "/", "0", "3", "/", "2", "5">>), Str(S1)>>,
      <<Str(<<"M", "a", "r", "d", "i", " ",
              "3", "1", "/", "0", "2", "/", "2", "5">>), Str(S1)>>,
      <<Str(Mardi_11_03_25), None>> }

\* Column B, rows 4, 5, 6 and 21: the groups of the rows.
Label(r4, r5, r6, r21) ==
    [r \in {4, 5, 6, 21} |->
        CASE r = 4 -> r4 [] r = 5 -> r5 [] r = 6 -> r6 [] OTHER -> r21]

LabelColumns ==
    { Label(None, None, None, None),
      Label(None, Str(G1), None, None),
      Label(None, None, Str(G1), None),
      Label(None, Str(G1), Str(G1), None),
      Label(None, Str(G2), Str(G1), None),
      Label(None, Str(G1), Str(G2), None),
      Label(Str(G1), None, None, None),
      Label(Str(G1), Str(G1), None, None),
      Label(None, None, None, Str(G1)),
      Label(None, Str(G1), None, Str(G1)) }

\* The cells that can hold a session: <<sheet, cell>>.
SessionCells ==
    { <<1, <<3, 5>> >>, <<1, <<4, 5>> >>, <<1, <<3, 6>> >>,
      <<1, <<27, 5>> >>, <<2, <<3, 5>> >> }

SessionTexts == {Str(FL_TP), Str(FL_TD), Str(FL)}

\* The timetables of the model hold at most MaxSessions sessions.
MaxSessions == 2

\* A session over two slots is one merged range, C5:D5 of the first sheet.
TwoSlots == [min_col |-> 3, min_row |-> 5, max_col |-> 4, max_row |-> 5]

EI1CellValue(i, c, labels, header, sessions, merged) ==
    CASE i = 1 /\ c[1] = 2 /\ c[2] \in DOMAIN labels -> labels[c[2]]
      [] \E r \in merged[i] : InRange(c, r) /\ ~ IsAnchor(c, r) -> None
      [] <<i, c>> \in DOMAIN sessions -> sessions[<<i, c>>]
      [] i = 1 /\ c = <<4, 3>> -> header[1]
      [] i = 1 /\ c = <<4, 4>> -> header[2]
      [] i = 1 /\ c = <<3, 3>> -> Str(Lundi_10_03_25)
      [] i = 1 /\ c = <<3, 4>> -> Str(M1)
      [] i = 2 /\ c = <<3, 3>> -> Str(Lundi_17_03_25)
      [] i = 2 /\ c = <<3, 4>> -> Str(S2)
      [] c = <<4, 3>>  -> Str(Mardi_11_03_25)
      [] c = <<4, 4>>  -> Str(M2)
      [] c = <<27, 3>> -> Str(Jeudi_13_03_25)
      [] c = <<27, 4>> -> Str(M2)
      [] OTHER -> None

\* The timetable file as it is loaded.
EI1Workbook(labels, header, sessions, merged) ==
    [i \in 1..Len(Sheets) |->
        [title  |-> Sheets[i],
         cells  |-> [c \in EI1Coords |->
                        EI1CellValue(i, c, labels, header, sessions, merged)],
         merged |-> merged[i]]]

InitEI1 ==
    /\ pc = "timetable"
    /\ \E labels \in LabelColumns, header \in HeaderPairs,
          filled \in { f \in SUBSET SessionCells :
                         Cardinality(f) <= MaxSessions },
          two_slots \in BOOLEAN :
          \E sessions \in [filled -> SessionTexts] :
              source = EI1Workbook(labels, header, sessions,
                           [i \in 1..Len(Sheets) |->
                               IF i = 1 /\ two_slots THEN {TwoSlots} ELSE {}])
    /\ \E course_type \in {TP, TP_TD} :
          call = [course_name |-> FL, group_name |-> G1,
                  course_type |-> course_type]
    /\ wbook = <<>>
    /\ saved = {}
    /\ search_string = <<>>
    /\ search_results = <<>>
    /\ output_save = ""
    /\ groups_row = <<>>
    /\ occurences = <<>>
    /\ extracted = [outcome |-> "not run", events |-> <<>>]
    /\ IdleConflict
    /\ IdleIcs
    /\ IdleParallel
    /\ IdleClean

NextEI1 == ExtractEI1Call

SpecEI1 == InitEI1 /\ [][NextEI1]_vars

\* The call of the extractor has ended, by a return or by an exception.
Ended == pc \in {"extracted", "failed"}

\* The text contains the other text.
Contains(text, part) ==
    \E a, b \in 0..Len(text) : a <= b /\ SubSeq(text, a + 1, b) = part

\* The rows 4 to 20 whose cell of column B, on the first sheet of the
\* normalised timetable, is a text that contains the group name.
LabelRows ==
    { r \in 4..20 :
        /\ <<2, r>> \in DOMAIN wbook[1].cells
        /\ wbook[1].cells[<<2, r>>].kind = "str"
        /\ Contains(wbook[1].cells[<<2, r>>].val, call.group_name) }

\* The cell of an occurrence.
CellOf(occ) == CHOOSE c \in DOMAIN wbook[1].cells : coordinate(c) = occ[2]

\* The row of an occurrence.
RowOf(occ) == CellOf(occ)[2]

\* The column of an occurrence.
ColumnOf(occ) == CellOf(occ)[1]

Indices(seq) == 1..Len(seq)

\* C11: when several rows of column B, rows 4 to 20 of the first sheet,
\* contain the group name, the group row is the last of them, and only the
\* occurrences of the course name in that last row produce events.
C11_LastMatchingRowWins ==
    (Ended /\ LabelRows # {}) =>
        LET last == CHOOSE r \in LabelRows : \A q \in LabelRows : q <= r
        IN  /\ groups_row = str_of_int(last)
            /\ pc = "extracted" =>
                  Len(extracted.events) <=
                      Cardinality({ k \in Indices(occurences) :
                                      RowOf(occurences[k]) = last })

\* Rows 5 and 6 are rows of the group; each holds a session of the course
\* and of the type asked for, and the call returned one event.
C11_Witness ==
    /\ pc = "extracted"
    /\ LabelRows = {5, 6}
    /\ \E j, k \in Indices(occurences) :
          /\ RowOf(occurences[j]) = 5 /\ occurences[j][3].val = FL_TP
          /\ RowOf(occurences[k]) = 6 /\ occurences[k][3].val = FL_TP
    /\ Len(extracted.events) = 1

\* The last of the rows of the group, 0 when there is none.
LastLabelRowFound ==
    IF LabelRows = {} THEN 0
    ELSE CHOOSE r \in LabelRows : \A q \in LabelRows : q <= r

\* The first characters of a text, two at most.
FirstTwo(text) == [k \in 1..(IF Len(text) < 2 THEN Len(text) ELSE 2) |-> text[k]]

\* The summaries of the events, in order.
SummariesOf(events) == [k \in Indices(events) |-> events[k].summary]

Grp == <<" ", "G", "r", "p", " ">>

\* C12 as stated: an occurrence of the course name is rejected if its row
\* is not the group row or if the first two characters of the FIRST token
\* of its text are not among the course types; every other occurrence
\* yields exactly one event.
C12_RejectedByRowOrFirstToken ==
    pc = "extracted" =>
        Len(extracted.events) =
            Cardinality({ k \in Indices(occurences) :
                /\ RowOf(occurences[k]) = LastLabelRowFound
                /\ Contains(call.course_type,
                            FirstTwo(split(occurences[k][3].val)[1])) })

\* The occurrences a returning call accepts: in the group row, in a column
\* of one letter, and the first two characters of the SECOND token occur
\* in the course_type text.
AcceptedOccurences ==
    SelectSeq(occurences,
        LAMBDA occ :
            /\ RowOf(occ) = LastLabelRowFound
            /\ ColumnOf(occ) <= Len(Alphabet)
            /\ Len(split(occ[3].val)) >= 2
            /\ Contains(call.course_type, FirstTwo(split(occ[3].val)[2])))

\* C12, amended: in a call that returns, an occurrence of the course name
\* is rejected if the part of its coordinate after the first character is
\* not the group row (its row differs, or its column has two letters), or
\* if the first two characters of the second token of its text do not
\* occur in the course_type text; every other occurrence yields exactly
\* one event, in the order of the occurrences; no occurrence of the group
\* row in a one-letter column has a single token.
C12_RejectedByRowOrSecondToken ==
    pc = "extracted" =>
        /\ SummariesOf(extracted.events) =
               [k \in Indices(AcceptedOccurences) |->
                   AcceptedOccurences[k][3].val \o Grp \o call.group_name]
        /\ \A k \in Indices(occurences) :
              (/\ RowOf(occurences[k]) = LastLabelRowFound
               /\ ColumnOf(occurences[k]) <= Len(Alphabet))
              => Len(split(occurences[k][3].val)) >= 2

\* A call that returned one event for two occurrences of the group row
\* with the type asked for: the one in column C is accepted, the one in
\* column AA is not.
C12_Witness ==
    /\ pc = "extracted"
    /\ Len(extracted.events) = 1
    /\ Len(occurences) = 2
    /\ \A k \in 1..2 :
          /\ RowOf(occurences[k]) = LastLabelRowFound
          /\ occurences[k][3].val = FL_TP
    /\ ColumnOf(occurences[1]) = 3
    /\ ColumnOf(occurences[2]) > Len(Alphabet)

\* C13: when no row of column B, rows 4 to 20 of the first sheet, contains
\* the group name, the call ends in an error whatever the timetable holds;
\* it never returns a list of events, not even an empty one.
C13_NoGroupRowIsAnError ==
    (Ended /\ LabelRows = {}) => pc = "failed"

(***************************************************************************)
(* clean_text and extract_schedule_1sheet_format.                          *)
(***************************************************************************)
\* text.replace('\n', ' ').replace('\t', ' ').replace('\r', ' ')
ReplaceBreaks(text) ==
    [k \in 1..Len(text) |->
        IF text[k] \in {"\n", "\t", "\r"} THEN " " ELSE text[k]]

\* re.sub(r'\s+', ' ', text): every run of whitespace becomes one space.
RECURSIVE CollapseFrom(_, _, _)
CollapseFrom(text, i, out) ==
    IF i > Len(text) THEN out
    ELSE IF text[i] \in Whitespace
         THEN CollapseFrom(text, i + 1,
                  IF i > 1 /\ text[i - 1] \in Whitespace
                  THEN out ELSE Append(out, " "))
         ELSE CollapseFrom(text, i + 1, Append(out, text[i]))

\* Mutant: the ends are not trimmed.
clean_text_NoStrip(text) == CollapseFrom(ReplaceBreaks(text), 1, <<>>)

clean_text(text) == strip(CollapseFrom(ReplaceBreaks(text), 1, <<>>))

Lundi == <<"L", "u", "n", "d", "i">>

Mardi == <<"M", "a", "r", "d", "i">>

Mercredi == <<"M", "e", "r", "c", "r", "e", "d", "i">>

Jeudi == <<"J", "e", "u", "d", "i">>

Vendredi == <<"V", "e", "n", "d", "r", "e", "d", "i">>

\* Mutant: the weekdays are counted from 1.
jour_to_dayshift_FromOne(day_of_week) ==
    CASE day_of_week = Str(Lundi)    -> 1
      [] day_of_week = Str(Mardi)    -> 2
      [] day_of_week = Str(Mercredi) -> 3
      [] day_of_week = Str(Jeudi)    -> 4
      [] day_of_week = Str(Vendredi) -> 5
      [] OTHER -> -1

\* jour_to_dayshift[day_of_week]; -1 when it raises KeyError.
jour_to_dayshift(day_of_week) ==
    CASE day_of_week = Str(Lundi)    -> 0
      [] day_of_week = Str(Mardi)    -> 1
      [] day_of_week = Str(Mercredi) -> 2
      [] day_of_week = Str(Jeudi)    -> 3
      [] day_of_week = Str(Vendredi) -> 4
      [] OTHER -> -1

\* class_slots[slot] of extract_schedule_1sheet_format.
class_slots_1sheet(slot) ==
    CASE slot = M1 -> << <<8, 0>>, <<10, 0>> >>
      [] slot = M2 -> << <<10, 15>>, <<12, 15>> >>
      [] slot = S1 -> << <<13, 45>>, <<15, 45>> >>
      [] slot = S2 -> << <<16, 0>>, <<18, 0>> >>
      [] OTHER     -> KeyError

\* date + timedelta(days=n)
RECURSIVE AddDays(_, _)
AddDays(date, n) ==
    IF n = 0 THEN date
    ELSE AddDays(
             IF date.day < DaysInMonth(date.year, date.month)
             THEN [date EXCEPT !.day = @ + 1]
             ELSE IF date.month < 12
                  THEN [date EXCEPT !.day = 1, !.month = @ + 1]
                  ELSE [date EXCEPT !.day = 1, !.month = 1, !.year = @ + 1],
             n - 1)

\* "".join(filter(lambda x: x.isalpha(), occ[1]))
Letters(coord) == SelectSeq(coord, LAMBDA ch : ~ IsDigit(ch))

\* "".join(filter(lambda x: x.isdigit(), occ[1]))
DigitsOf(coord) == SelectSeq(coord, LAMBDA ch : IsDigit(ch))

\* The event of an occurrence, or Raised when a step raises.
OneSheetEvent(wb, occ, args) ==
    LET sheet        == SheetByTitle(wb, occ[1])
        column_index == Letters(occ[2])
        date_pos     == args.date_column \o DigitsOf(occ[2])
        date_cell    == CellValue(sheet, date_pos)
        day_of_week  == CellValue(sheet,
                            column_index
                                \o str_of_int(int(args.line_slot) - 1))
        shift        == jour_to_dayshift(day_of_week)
        slot_cell    == CellValue(sheet, column_index \o args.line_slot)
    IN  IF shift < 0 \/ date_cell.kind # "date" \/ slot_cell.kind # "str"
        THEN Raised
        ELSE LET date  == AddDays(date_cell.val, shift)
                 times == class_slots_1sheet(strip(slot_cell.val))
             IN  IF times = KeyError THEN Raised
                 ELSE [summary |-> clean_text(occ[3].val),
                       dtstart |-> localize([date EXCEPT
                                       !.hour = times[1][1],
                                       !.minute = times[1][2]]),
                       dtend   |-> localize([date EXCEPT
                                       !.hour = times[2][1],
                                       !.minute = times[2][2]])]

\* for occ in occurences: ...
RECURSIVE OneSheetLoop(_, _, _, _, _)
OneSheetLoop(wb, occs, i, args, events) ==
    IF i > Len(occs) THEN [outcome |-> "ok", events |-> events]
    ELSE LET event == OneSheetEvent(wb, occs[i], args)
         IN  IF event = Raised THEN Raised
             ELSE OneSheetLoop(wb, occs, i + 1, args, Append(events, event))

\* A call extract_schedule_1sheet_format(file_path, course_name,
\* date_column, line_slot) on the schedule file.
Extract1SheetCall ==
    /\ pc = "schedule"
    /\ output_save' = ""
    /\ wbook' = unmerge_cell_copy_top_value(source)
    /\ saved' = Save(saved, output_save', wbook')
    /\ occurences' = search_string_in_workbook(wbook', call.course_name)
    /\ extracted' = OneSheetLoop(wbook', occurences', 1, call, <<>>)
    /\ pc' = IF extracted'.outcome = "ok" THEN "extracted" ELSE "failed"
    /\ UNCHANGED <<source, search_string, search_results>>
    /\ UNCHANGED <<call, groups_row, conflictVars, icsVars, parallelVars, cleanVars>>

(***************************************************************************)
(* The schedules of the model, in the layout                               *)
(* extract_schedule_1sheet_format reads: column A holds the Monday of the  *)
(* week of each row, row 1 the weekday of each column and row 2 its slot.  *)
(* The sheets hold the columns A, B, C and AB and the rows 1, 2, 3 and 12; *)
(* the other cells are empty and left out.                                 *)
(***************************************************************************)
OneSheetCoords == {1, 2, 3, 28} \X {1, 2, 3, 12}

\* A date cell: openpyxl gives a datetime at midnight.
Midnight(year, month, day) == DateVal(DateTime(year, month, day, 0, 0))

\* Cell A3 of the first sheet: a Monday, the last Monday of a month, a
\* date written as text, nothing.
MondayCells ==
    { Midnight(2025, 3, 10), Midnight(2025, 3, 31),
      Str(<<"1", "0", "/", "0", "3", "/", "2", "5">>), None }

\* Cells B1 and B2 of the first sheet: a weekday and a slot; a day that is
\* no key; a slot that is no key; no weekday; no slot.
WeekdayPairs ==
    { <<Str(Mercredi), Str(S1)>>,
      <<Str(<<"S", "a", "m", "e", "d", "i">>), Str(S1)>>,
      <<Str(Mercredi), Str(<<"S", "3">>)>>,
      <<None, Str(S1)>>,
      <<Str(Mercredi), None>> }

\* The cells that can hold a session: <<sheet, cell>>.
OneSheetCells ==
    { <<1, <<2, 3>> >>, <<1, <<3, 3>> >>, <<1, <<2, 12>> >>,
      <<1, <<28, 12>> >>, <<2, <<2, 3>> >> }

FL_TP_Lines == <<"F", "L", "\n", " ", "T", "P", "\t">>

OneSheetTexts == {Str(FL_TP), Str(FL_TP_Lines), Str(FL)}

\* A session over two days is one merged range, B3:C3 of the first sheet.
TwoDays == [min_col |-> 2, min_row |-> 3, max_col |-> 3, max_row |-> 3]

OneSheetCellValue(i, c, monday, header, sessions, merged) ==
    CASE \E r \in merged[i] : InRange(c, r) /\ ~ IsAnchor(c, r) -> None
      [] <<i, c>> \in DOMAIN sessions -> sessions[<<i, c>>]
      [] i = 1 /\ c = <<1, 3>> -> monday
      [] i = 2 /\ c = <<1, 3>> -> Midnight(2025, 12, 29)
      [] c = <<1, 12>> -> Midnight(2025, 3, 17)
      [] i = 1 /\ c = <<2, 1>> -> header[1]
      [] i = 1 /\ c = <<2, 2>> -> header[2]
      [] i = 2 /\ c = <<2, 1>> -> Str(Jeudi)
      [] i = 2 /\ c = <<2, 2>> -> Str(M1)
      [] c = <<3, 1>>  -> Str(Vendredi)
      [] c = <<3, 2>>  -> Str(<<" ">> \o M2 \o <<" ">>)
      [] c = <<28, 1>> -> Str(Mardi)
      [] c = <<28, 2>> -> Str(S2)
      [] OTHER -> None

\* The schedule file as it is loaded.
OneSheetWorkbook(monday, header, sessions, merged) ==
    [i \in 1..Len(Sheets) |->
        [title  |-> Sheets[i],
         cells  |-> [c \in OneSheetCoords |->
                        OneSheetCellValue(i, c, monday, header, sessions,
                                          merged)],
         merged |-> merged[i]]]

Init1Sheet ==
    /\ pc = "schedule"
    /\ \E monday \in MondayCells, header \in WeekdayPairs,
          filled \in { f \in SUBSET OneSheetCells :
                         Cardinality(f) <= MaxSessions },
          two_days \in BOOLEAN :
          \E sessions \in [filled -> OneSheetTexts] :
              source = OneSheetWorkbook(monday, header, sessions,
                           [i \in 1..Len(Sheets) |->
                               IF i = 1 /\ two_days THEN {TwoDays} ELSE {}])
    /\ call = [course_name |-> FL, date_column |-> <<"A">>,
               line_slot |-> <<"2">>]
    /\ wbook = <<>>
    /\ saved = {}
    /\ search_string = <<>>
    /\ search_results = <<>>
    /\ output_save = ""
    /\ groups_row = <<>>
    /\ occurences = <<>>
    /\ extracted = [outcome |-> "not run", events |-> <<>>]
    /\ IdleConflict
    /\ IdleIcs
    /\ IdleParallel
    /\ IdleClean

Next1Sheet == Extract1SheetCall

Spec1Sheet == Init1Sheet /\ [][Next1Sheet]_vars

(***************************************************************************)
(* The two extractors together.                                            *)
(***************************************************************************)
InitExtract == InitEI1 \/ Init1Sheet

NextExtract == ExtractEI1Call \/ Extract1SheetCall

SpecExtract == InitExtract /\ [][NextExtract]_vars

\* The call is one of extract_schedule_1sheet_format.
IsOneSheet == "date_column" \in DOMAIN call

\* The value of the cell of the given row in the column of an occurrence,
\* on the occurrence's sheet of the normalised file.
HeaderOf(occ, row) == SheetByTitle(wbook, occ[1]).cells[<<ColumnOf(occ), row>>]

\* The header holds a slot code of the slot table (surrounding whitespace
\* is not part of the code).
HasSlot(header) ==
    /\ header.kind = "str"
    /\ \E slot \in {M1, M2, S1, S2}, before, after \in 0..Len(header.val) :
          /\ before + Len(slot) + after = Len(header.val)
          /\ SubSeq(header.val, before + 1, before + Len(slot)) = slot
          /\ \A k \in (1..before) \cup
                      ((before + Len(slot) + 1)..Len(header.val)) :
                header.val[k] \in Whitespace

\* The header is a key of the weekday shift table.
HasWeekday(header) ==
    header \in {Str(Lundi), Str(Mardi), Str(Mercredi), Str(Jeudi),
                Str(Vendredi)}

\* C14: if the slot header (row 4) of an accepted match of
\* extract_schedule_by_group_EI1 holds no slot code of the slot table, or
\* if the slot header (row line_slot) or the weekday header (row
\* line_slot - 1) of a match of extract_schedule_1sheet_format holds no key
\* of its table, the call ends in an error: it returns no event list.
C14_UnknownSlotOrWeekdayAborts ==
    Ended =>
        /\ (/\ ~ IsOneSheet
            /\ \E k \in Indices(AcceptedOccurences) :
                  ~ HasSlot(HeaderOf(AcceptedOccurences[k], 4)))
           => (pc = "failed" /\ extracted.outcome = "error"
                             /\ extracted.events = <<>>)
        /\ (/\ IsOneSheet
            /\ \E k \in Indices(occurences) :
                  \/ ~ HasSlot(HeaderOf(occurences[k], 2))
                  \/ ~ HasWeekday(HeaderOf(occurences[k], 1)))
           => (pc = "failed" /\ extracted.outcome = "error"
                             /\ extracted.events = <<>>)

\* A call of extract_schedule_by_group_EI1 that failed: the second of two
\* accepted matches is under the slot header "M3", a well-formed date
\* header above it, and the first accepted match has a slot of the table.
C14_Witness ==
    /\ pc = "failed"
    /\ ~ IsOneSheet
    /\ Len(AcceptedOccurences) = 2
    /\ Len(occurences) = 2
    /\ HasSlot(HeaderOf(AcceptedOccurences[1], 4))
    /\ HeaderOf(AcceptedOccurences[2], 4) = Str(<<"M", "3">>)
    /\ HeaderOf(AcceptedOccurences[2], 3) = Str(Mardi_11_03_25)

\* The number of a day of 2025 to 2027, counted from 2025-01-01 as day 1.
DayNumber(date) ==
    365 * (date.year - 2025)
        + <<0, 31, 59, 90, 120, 151, 181, 212, 243, 273, 304, 334>>[date.month]
        + date.day

\* The minute of the day.
MinuteOfDay(dt) == 60 * dt.hour + dt.minute

\* The weekday shift table: Lundi 0, Mardi 1, Mercredi 2, Jeudi 3,
\* Vendredi 4.
ShiftOf(header) ==
    CHOOSE n \in 0..4 :
        header = Str(<<Lundi, Mardi, Mercredi, Jeudi, Vendredi>>[n + 1])

\* The slot table, in minutes of the day: M1 08:00-10:00, M2 10:15-12:15,
\* S1 13:45-15:45, S2 16:00-18:00.
SlotMinutes(header) ==
    CASE Contains(header.val, M1) -> <<480, 600>>
      [] Contains(header.val, M2) -> <<615, 735>>
      [] Contains(header.val, S1) -> <<825, 945>>
      [] Contains(header.val, S2) -> <<960, 1080>>

\* The characters of a text that are not whitespace.
Inked(text) == SelectSeq(text, LAMBDA ch : ch \notin Whitespace)

\* The Monday of the row of an occurrence: the cell of column A.
MondayOf(occ) == SheetByTitle(wbook, occ[1]).cells[<<1, RowOf(occ)>>].val

\* C15: a call of extract_schedule_1sheet_format that returns gives one
\* event per match, in match order; the event is on the day that is the
\* Monday of column A in the match's row plus the shift of the weekday of
\* row line_slot - 1 in the match's column, and it starts and ends at the
\* times of the slot of row line_slot in the match's column, in the zone
\* Europe/Paris.  Monday 2025-03-10, Mercredi, S1 gives 13:45 to 15:45 on
\* 2025-03-12.
C15_DateIsMondayPlusShiftAtSlotTimes ==
    (pc = "extracted" /\ IsOneSheet) =>
        /\ Len(extracted.events) = Len(occurences)
        /\ \A k \in Indices(occurences) :
              LET occ   == occurences[k]
                  event == extracted.events[k]
                  slot  == SlotMinutes(HeaderOf(occ, 2))
                  day   == DayNumber(MondayOf(occ)) + ShiftOf(HeaderOf(occ, 1))
              IN  /\ Inked(event.summary) = Inked(occ[3].val)
                  /\ DayNumber(event.dtstart) = day
                  /\ DayNumber(event.dtend) = day
                  /\ MinuteOfDay(event.dtstart) = slot[1]
                  /\ MinuteOfDay(event.dtend) = slot[2]
                  /\ event.dtstart.tz = "Europe/Paris"
                  /\ event.dtend.tz = "Europe/Paris"
                  /\ (/\ MondayOf(occ) = DateTime(2025, 3, 10, 0, 0)
                      /\ HeaderOf(occ, 1) = Str(Mercredi)
                      /\ HeaderOf(occ, 2) = Str(S1))
                     => /\ event.dtstart =
                               localize(DateTime(2025, 3, 12, 13, 45))
                        /\ event.dtend =
                               localize(DateTime(2025, 3, 12, 15, 45))

\* A call that returned two events: the first for Monday 2025-03-10,
\* Mercredi, S1; the second, of the other sheet, for the Thursday after
\* Monday 2025-12-29, which is in the next year.
C15_Witness ==
    /\ pc = "extracted"
    /\ IsOneSheet
    /\ Len(extracted.events) = 2
    /\ MondayOf(occurences[1]) = DateTime(2025, 3, 10, 0, 0)
    /\ HeaderOf(occurences[1], 1) = Str(Mercredi)
    /\ HeaderOf(occurences[1], 2) = Str(S1)
    /\ occurences[1][3].val # occurences[2][3].val
    /\ extracted.events[2].dtstart.year = 2026

\* A number below 100 written with two digits.
TwoDigits(n) == <<DecimalDigits[(n \div 10) + 1], DecimalDigits[(n % 10) + 1]>>

\* The date of a datetime written as in the date headers: dd/mm/yy.
DayMonthYear(dt) ==
    TwoDigits(dt.day) \o <<"/">> \o TwoDigits(dt.month) \o <<"/">>
        \o TwoDigits(dt.year % 100)

\* C16: in a call of extract_schedule_by_group_EI1 that returns, the event
\* of every accepted match has the date written in row 3 of the match's
\* column (after the day name) and starts and ends at the times of the slot
\* written in row 4 of that column, in the zone Europe/Paris; its summary
\* is the text of the matched cell, " Grp " and the group name.  The cell
\* "FL TP" under "Lundi 10/03/25" and "M1" gives "FL TP Grp G1", 08:00 to
\* 10:00 on 2025-03-10.
C16_DateOfRow3SlotOfRow4 ==
    (pc = "extracted" /\ ~ IsOneSheet) =>
        /\ Len(extracted.events) = Len(AcceptedOccurences)
        /\ \A k \in Indices(AcceptedOccurences) :
              LET occ   == AcceptedOccurences[k]
                  event == extracted.events[k]
                  date  == HeaderOf(occ, 3).val
                  slot  == SlotMinutes(HeaderOf(occ, 4))
              IN  /\ \E name \in {Lundi, Mardi, Mercredi, Jeudi, Vendredi} :
                        date = name \o <<" ">> \o DayMonthYear(event.dtstart)
                  /\ DayMonthYear(event.dtend) = DayMonthYear(event.dtstart)
                  /\ event.dtstart.year \in 2000..2068
                  /\ MinuteOfDay(event.dtstart) = slot[1]
                  /\ MinuteOfDay(event.dtend) = slot[2]
                  /\ event.dtstart.tz = "Europe/Paris"
                  /\ event.dtend.tz = "Europe/Paris"
                  /\ event.summary = occ[3].val \o Grp \o call.group_name
                  /\ (/\ occ[3].val = FL_TP
                      /\ date = Lundi_10_03_25
                      /\ HeaderOf(occ, 4) = Str(M1))
                     => event =
                          [summary |-> <<"F", "L", " ", "T", "P", " ",
                                         "G", "r", "p", " ", "G", "1">>,
                           dtstart |-> localize(DateTime(2025, 3, 10, 8, 0)),
                           dtend   |-> localize(DateTime(2025, 3, 10, 10, 0))]

\* A call that returned two events: "FL TP" under "Lundi 10/03/25" and
\* "M1" on the first sheet, and a match of the second sheet, whose date
\* and slot are those of the second sheet.
C16_Witness ==
    /\ pc = "extracted"
    /\ ~ IsOneSheet
    /\ Len(extracted.events) = 2
    /\ AcceptedOccurences[1][3].val = FL_TP
    /\ HeaderOf(AcceptedOccurences[1], 3) = Str(Lundi_10_03_25)
    /\ HeaderOf(AcceptedOccurences[1], 4) = Str(M1)
    /\ AcceptedOccurences[2][1] = Sheets[2]
    /\ extracted.events[2].dtstart = localize(DateTime(2025, 3, 17, 16, 0))

(***************************************************************************)
(* The producers of events together: read_ics and the two extractors.      *)
(***************************************************************************)
InitProducers == InitIcsFile \/ InitExtract

NextProducers == ReadIcsCall \/ NextExtract

SpecProducers == InitProducers /\ [][NextProducers]_vars

\* The minute of an extractor's datetime, counted from 2025-01-01 00:00
\* (the extractors' datetimes are all of the zone Europe/Paris).
MinuteNumber(dt) == 1440 * DayNumber(dt) + MinuteOfDay(dt)

\* C17: every event that read_ics, extract_schedule_by_group_EI1 or
\* extract_schedule_1sheet_format produces starts before it ends.
C17_EveryEventStartsBeforeItEnds ==
    /\ \A k \in Indices(parsed.events) :
          Instant(parsed.events[k].dtstart) < Instant(parsed.events[k].dtend)
    /\ \A k \in Indices(extracted.events) :
          MinuteNumber(extracted.events[k].dtstart)
              < MinuteNumber(extracted.events[k].dtend)

(***************************************************************************)
(* The callers of unmerge_cell_copy_top_value: a direct call, and the two  *)
(* extractors.                                                             *)
(***************************************************************************)
InitNormalize == InitUnmerge \/ InitExtract

NextNormalize == NextUnmerge \/ NextExtract

SpecNormalize == InitNormalize /\ [][NextNormalize]_vars

\* The normalised grid of a loaded workbook: no merged range, and a cell of
\* a merged range holds what the top-left cell of the range held.
NormalizedGrid(wb) ==
    [i \in 1..Len(wb) |->
        [title  |-> wb[i].title,
         merged |-> {},
         cells  |-> [c \in DOMAIN wb[i].cells |->
                       IF \E r \in wb[i].merged : InRange(c, r)
                       THEN LET r == CHOOSE q \in wb[i].merged : InRange(c, q)
                            IN  wb[i].cells[<<r.min_col, r.min_row>>]
                       ELSE wb[i].cells[c]]]]

Callers == {1, 2}

\* Each caller makes at most MaxCalls calls, all on its own unchanged file.
MaxCalls == 2

\* Mutant: the workbook of a call is kept in one variable of the module.
WorkbookOf_Shared(p) == 1

\* wbook is a local variable of the call: one workbook object for each call
\* in progress.
WorkbookOf(p) == p

\* No merged range on any sheet.
NoMerge == [i \in 1..Len(Sheets) |-> {}]

\* The files and arguments of the callers: three timetables and two
\* schedules.
Jobs ==
    { [source |-> EI1Workbook(Label(None, Str(G1), None, None),
                      <<Str(Mardi_11_03_25), Str(<<" ">> \o S1 \o <<" ">>)>>,
                      ( <<1, <<3, 5>> >> :> Str(FL_TP) )
                          @@ ( <<1, <<4, 5>> >> :> Str(FL_TP) ),
                      NoMerge),
       call   |-> [course_name |-> FL, group_name |-> G1,
                   course_type |-> TP]],
      [source |-> EI1Workbook(Label(None, Str(G1), Str(G1), None),
                      <<Str(Mardi_11_03_25), Str(<<" ">> \o S1 \o <<" ">>)>>,
                      ( <<1, <<3, 6>> >> :> Str(FL_TD) )
                          @@ ( <<1, <<3, 5>> >> :> Str(FL_TP) ),
                      NoMerge),
       call   |-> [course_name |-> FL, group_name |-> G1,
                   course_type |-> TP_TD]],
      [source |-> EI1Workbook(Label(None, Str(G2), None, None),
                      <<Str(Mardi_11_03_25), Str(S1)>>,
                      ( <<1, <<3, 5>> >> :> Str(FL_TP) ),
                      [i \in 1..Len(Sheets) |->
                          IF i = 1 THEN {TwoSlots} ELSE {}]),
       call   |-> [course_name |-> FL, group_name |-> G1,
                   course_type |-> TP]],
      [source |-> OneSheetWorkbook(Midnight(2025, 3, 10),
                      <<Str(Mercredi), Str(S1)>>,
                      ( <<1, <<2, 3>> >> :> Str(FL_TP_Lines) ),
                      NoMerge),
       call   |-> [course_name |-> FL, date_column |-> <<"A">>,
                   line_slot |-> <<"2">>]],
      [source |-> OneSheetWorkbook(Midnight(2025, 3, 31),
                      <<Str(Mercredi), Str(S1)>>,
                      ( <<1, <<2, 3>> >> :> Str(FL_TP) )
                          @@ ( <<2, <<2, 3>> >> :> Str(FL) ),
                      [i \in 1..Len(Sheets) |->
                          IF i = 1 THEN {TwoDays} ELSE {}]),
       call   |-> [course_name |-> FL, date_column |-> <<"A">>,
                   line_slot |-> <<"2">>]] }

\* The locals of a call that has just been made.
Called(args, calls, first) ==
    [pc |-> "called", call |-> args, groups_row |-> Unbound,
     occurences |-> <<>>,
     extracted |-> [outcome |-> "not run", events |-> <<>>],
     calls |-> calls, first |-> first, interleaved |-> FALSE]

\* The call is one of extract_schedule_1sheet_format.
OneSheetCall(args) == "date_column" \in DOMAIN args

\* The call has loaded its workbook and has not returned.
InProgress(q) == running[q].pc \in {"loaded", "scanned", "searched"}

\* Caller p takes a step that changes its locals by the given fields; a
\* call in progress of another caller has then been interleaved with.
StepOf(p, locals) ==
    running' = [q \in Callers |->
                   IF q = p THEN locals
                   ELSE IF InProgress(q)
                        THEN [running[q] EXCEPT !.interleaved = TRUE]
                        ELSE running[q]]

InitParallel ==
    /\ pc = "callers"
    /\ IdleGrid
    /\ IdleConflict
    /\ IdleIcs
    /\ IdleExtract
    /\ \E jobs \in [Callers -> Jobs] :
          /\ workbooks = [p \in Callers |-> jobs[p].source]
          /\ running = [p \in Callers |->
                 Called(jobs[p].call, 1,
                        [outcome |-> "not run", events |-> <<>>])]
    /\ wbooks = [p \in Callers |-> <<>>]
    /\ IdleClean

\* wbook = unmerge_cell_copy_top_value(file_path)
LoadStep(p) ==
    /\ running[p].pc = "called"
    /\ wbooks' = [wbooks EXCEPT
                     ![WorkbookOf(p)] =
                         unmerge_cell_copy_top_value(workbooks[p])]
    /\ StepOf(p, [running[p] EXCEPT !.pc = "loaded"])
    /\ UNCHANGED <<pc, gridVars, conflictVars, icsVars, extractVars,
                   workbooks, cleanVars>>

\* for row in wbook.worksheets[0].iter_rows(min_row=4, max_row=20, ...)
ScanStep(p) ==
    /\ running[p].pc = "loaded"
    /\ ~ OneSheetCall(running[p].call)
    /\ StepOf(p, [running[p] EXCEPT
                     !.pc = "scanned",
                     !.groups_row =
                         GroupScan(wbooks[WorkbookOf(p)][1],
                                   running[p].call.group_name,
                                   FirstLabelRow, Unbound)])
    /\ UNCHANGED <<pc, gridVars, conflictVars, icsVars, extractVars,
                   workbooks, wbooks, cleanVars>>

\* occurences = search_string_in_workbook(wbook, course_name)
SearchStep(p) ==
    /\ running[p].pc =
           IF OneSheetCall(running[p].call) THEN "loaded" ELSE "scanned"
    /\ StepOf(p, [running[p] EXCEPT
                     !.pc = "searched",
                     !.occurences =
                         search_string_in_workbook(wbooks[WorkbookOf(p)],
                             running[p].call.course_name)])
    /\ UNCHANGED <<pc, gridVars, conflictVars, icsVars, extractVars,
                   workbooks, wbooks, cleanVars>>

\* for occ in occurences: ... return class_schedule
LoopStep(p) ==
    /\ running[p].pc = "searched"
    /\ LET mine   == running[p]
           result == IF OneSheetCall(mine.call)
                     THEN OneSheetLoop(wbooks[WorkbookOf(p)],
                              mine.occurences, 1, mine.call, <<>>)
                     ELSE EI1Loop(wbooks[WorkbookOf(p)], mine.occurences, 1,
                              mine.groups_row, mine.call, <<>>)
       IN  StepOf(p, [mine EXCEPT
                         !.pc = "returned",
                         !.extracted = result,
                         !.first = IF mine.calls = 1 THEN result
                                   ELSE mine.first])
    /\ UNCHANGED <<pc, gridVars, conflictVars, icsVars, extractVars,
                   workbooks, wbooks, cleanVars>>

\* The caller repeats its call on its unchanged file.
RepeatStep(p) ==
    /\ running[p].pc = "returned"
    /\ running[p].calls < MaxCalls
    /\ StepOf(p, Called(running[p].call, running[p].calls + 1,
                        running[p].first))
    /\ UNCHANGED <<pc, gridVars, conflictVars, icsVars, extractVars,
                   workbooks, wbooks, cleanVars>>

NextParallel ==
    \E p \in Callers :
        \/ LoadStep(p)
        \/ ScanStep(p)
        \/ SearchStep(p)
        \/ LoopStep(p)
        \/ RepeatStep(p)

SpecParallel == InitParallel /\ [][NextParallel]_vars

\* What a call returns when nothing else runs: the steps of the extractor
\* one after the other on the normalized file.
ReturnsAlone(file, args) ==
    LET wb   == unmerge_cell_copy_top_value(file)
        occs == search_string_in_workbook(wb, args.course_name)
    IN  IF OneSheetCall(args) THEN OneSheetLoop(wb, occs, 1, args, <<>>)
        ELSE EI1Loop(wb, occs, 1,
                 GroupScan(wb[1], args.group_name, FirstLabelRow, Unbound),
                 args, <<>>)

\* C19: extraction calls share no mutable state: however the steps of two
\* calls on independent files interleave, a call that has returned holds the
\* events it returns when it runs alone, and a repeated call on the
\* unchanged file returns what the first call returned.
C19_InterleavedCallsReturnAsAlone ==
    \A p \in Callers :
        running[p].pc = "returned"
        => /\ running[p].extracted = ReturnsAlone(workbooks[p],
                                                  running[p].call)
           /\ running[p].extracted = running[p].first

\* Both callers have returned from calls that interleaved, on different
\* files with different events, one of them from its repeated call.
C19_Witness ==
    /\ \A p \in Callers :
          /\ running[p].pc = "returned"
          /\ running[p].interleaved
          /\ running[p].extracted.outcome = "ok"
          /\ running[p].extracted.events # <<>>
    /\ workbooks[1] # workbooks[2]
    /\ running[1].extracted # running[2].extracted
    /\ OneSheetCall(running[1].call)
    /\ ~ OneSheetCall(running[2].call)
    /\ running[1].calls = MaxCalls


\* C20: after read_ics, a file with a VEVENT that lacks DTSTART or lacks
\* DTEND has ended the parse in an error, whatever the other fields of the
\* component are, a start in the past included: the component is neither
\* skipped nor turned into an event.
C20_MissingStartOrEndIsAnError ==
    (parsed # NotRun
        /\ \E k \in 1..Len(ics_file) :
              /\ ics_file[k].name = "VEVENT"
              /\ (ics_file[k].dtstart = Absent \/ ics_file[k].dtend = Absent))
    => parsed.outcome = "error"


\* Every event of the caller's collection starts before it ends.
AllStartBeforeEnd == \A e \in Rows(caller_df) : e.dtstart < e.dtend

\* The pairs of positions of the caller's collection whose events overlap.
OverlappingPairs ==
    { pair \in (1..Len(caller_df)) \X (1..Len(caller_df)) :
        /\ pair[1] < pair[2]
        /\ Overlap(caller_df[pair[1]], caller_df[pair[2]]) }

\* C21: when every input event has start < end, find_conflicting_events
\* returns an empty result exactly when no two events of the input overlap:
\* an overlapping pair, adjacent after sorting or not, always gives at least
\* one conflict record, though there may be fewer records than pairs.
C21_EmptyIffNoTwoEventsOverlap ==
    (pc = "conflicts_found" /\ AllStartBeforeEnd) =>
        (conflicts_df = <<>> <=> OverlappingPairs = {})

\* Three events with start < end: the first and the last in start order
\* overlap, the middle one overlaps the first but not the last, and one
\* record stands for the two overlapping pairs.
C21_Witness ==
    /\ pc = "conflicts_found"
    /\ AllStartBeforeEnd
    /\ Len(combined_df) = 3
    /\ Overlap(combined_df[1], combined_df[3])
    /\ ~ Overlap(combined_df[2], combined_df[3])
    /\ Cardinality(OverlappingPairs) = 2
    /\ Len(conflicts_df) = 1


(***************************************************************************)
(* clean_text on its own: it is given a text of up to MaxTextLen           *)
(* characters, letters and whitespace of every kind, and is then given its *)
(* own result.                                                             *)
(***************************************************************************)
MaxTextLen == 5

\* Two letters, and the whitespace of the model: the space, the three
\* characters clean_text replaces, and the form feed, which only \s matches.
TextAlphabet == {"a", "b"} \cup Whitespace

InitCleanText ==
    /\ pc = "text"
    /\ \E n \in 0..MaxTextLen : raw_text \in [1..n -> TextAlphabet]
    /\ cleaned = <<>>
    /\ recleaned = <<>>
    /\ IdleGrid
    /\ IdleConflict
    /\ IdleIcs
    /\ IdleExtract
    /\ IdleParallel

\* A call clean_text(raw_text).
CleanTextCall ==
    /\ pc = "text"
    /\ cleaned' = clean_text(raw_text)
    /\ pc' = "cleaned"
    /\ UNCHANGED <<raw_text, recleaned>>
    /\ UNCHANGED <<gridVars, conflictVars, icsVars, extractVars, parallelVars>>

\* A call of clean_text on what it returned.
CleanAgainCall ==
    /\ pc = "cleaned"
    /\ recleaned' = clean_text(cleaned)
    /\ pc' = "cleaned_twice"
    /\ UNCHANGED <<raw_text, cleaned>>
    /\ UNCHANGED <<gridVars, conflictVars, icsVars, extractVars, parallelVars>>

\* clean_text on its own, and in the single-sheet extractor.
InitClean == InitCleanText \/ Init1Sheet

NextClean == CleanTextCall \/ CleanAgainCall \/ Extract1SheetCall

SpecClean == InitClean /\ [][NextClean]_vars

\* The words joined by single spaces.
RECURSIVE JoinWithSpace(_)
JoinWithSpace(words) ==
    IF words = <<>> THEN <<>>
    ELSE IF Len(words) = 1 THEN words[1]
    ELSE words[1] \o <<" ">> \o JoinWithSpace(Tail(words))

\* The text with every run of whitespace replaced by one space and without
\* whitespace at its ends: its words, joined by single spaces.
SingleSpaced(text) == JoinWithSpace(split(text))

\* C22: clean_text returns its input with every run of whitespace replaced
\* by a single space and the ends trimmed; the result holds no two
\* consecutive spaces, no newline, no tab and no carriage return; cleaning
\* the result again changes nothing; and the summary of every event of the
\* single-sheet extractor is clean_text of the text of the matched cell.
C22_CleanTextCollapsesAndTrims ==
    /\ pc \in {"cleaned", "cleaned_twice"} =>
          /\ cleaned = SingleSpaced(raw_text)
          /\ \A k \in 1..Len(cleaned) :
                /\ cleaned[k] \notin {"\n", "\t", "\r"}
                /\ (k > 1 /\ cleaned[k] = " ") => cleaned[k - 1] # " "
          /\ (cleaned # <<>>) =>
                (cleaned[1] \notin Whitespace
                    /\ cleaned[Len(cleaned)] \notin Whitespace)
    /\ pc = "cleaned_twice" => recleaned = cleaned
    /\ (pc = "extracted" /\ IsOneSheet) =>
          /\ Len(extracted.events) = Len(occurences)
          /\ \A k \in 1..Len(occurences) :
                extracted.events[k].summary
                    = SingleSpaced(occurences[k][3].val)

\* A text that starts with a tab and holds a newline and a space between
\* its two letters has been cleaned twice.
C22_Witness ==
    /\ pc = "cleaned_twice"
    /\ raw_text = <<"\t", "a", "\n", " ", "b">>
    /\ cleaned = <<"a", " ", "b">>
    /\ recleaned = cleaned

====
